---- MODULE Spec2Model ----
(***************************************************************************)
(* Transactional core of the reseller platform: the wallet ledger          *)
(* (packages/core/services/wallet-manager.ts), the order state machine     *)
(* (packages/core/services/order-state-machine.ts), the providers          *)
(* (packages/core/providers), order fulfilment (order-manager.ts),         *)
(* provider sync and the pricing engine.                                   *)
(***************************************************************************)
EXTENDS Integers, Sequences, FiniteSets, TLC

VARIABLES
    ledger,   \* the wallet's transaction log, as persistence holds it
    balance,  \* calculateBalance of the log, as the caller last computed it
    trip,     \* the order payment in progress: lock, then complete or cancel
    req,      \* the last WalletManager call: its arguments
    res,      \* ... and what it returned or threw
    rpc,      \* racing callers: where each one is
    rsnap,    \* racing callers: the balance each one read
    ramt,     \* racing callers: the amount each one locks
    rok,      \* racing callers: whether its lock succeeded
    osm,      \* the last OrderStateMachine call and its result
    ful,      \* the last OrderManager.fulfillOrder call and its result
    sync,     \* ProviderSync: the batch in progress and its last syncOrder
    price,    \* the last PricingEngine call and its result
    reg,      \* ProviderRegistry: the registered classes and the last create
    ord       \* the last order placement or input validation and its result

walletVars == <<ledger, balance, trip>>
callVars == <<req, res>>
raceVars == <<rpc, rsnap, ramt, rok>>
extVars == <<ful, sync, price, reg, ord>>
vars == <<ledger, balance, trip, req, res, rpc, rsnap, ramt, rok, osm, ful, sync, price, reg, ord>>

(* ---------------------------------------------------------------------- *)
(* Bounds                                                                  *)
(* ---------------------------------------------------------------------- *)
MaxLedger == 4
MaxAmount == 2
MaxTxs == 2

\* An optional field that was not supplied (undefined in the source).
None == "none"

\* Amounts a caller may pass: 0 (rejected by every operation) and valid ones.
Amounts == 0..MaxAmount

OrderIds == {"o1"}

\* (referenceType, referenceId) as a caller of a primitive may supply them:
\* both fields are optional in TransactionCreateInput.
OrderRef == [referenceType |-> "order", referenceId |-> "o1"]
NoRef == [referenceType |-> None, referenceId |-> None]
Refs == {NoRef, OrderRef}

TransactionType == {"credit", "debit", "lock", "unlock", "refund"}
TransactionStatus == {"pending", "completed", "failed", "reversed"}

(* ---------------------------------------------------------------------- *)
(* WalletManager                                                           *)
(* ---------------------------------------------------------------------- *)

\* Mutant of ApplyTx: the status of the entry is not looked at.
ApplyTxAnyStatus(acc, tx) ==
    CASE tx.type = "credit" -> [acc EXCEPT !.available = @ + tx.amount]
      [] tx.type = "debit"  -> [acc EXCEPT !.available = @ - tx.amount]
      [] tx.type = "lock"   -> [acc EXCEPT !.available = @ - tx.amount,
                                           !.locked = @ + tx.amount]
      [] tx.type = "unlock" -> [acc EXCEPT !.available = @ + tx.amount,
                                           !.locked = @ - tx.amount]
      [] tx.type = "refund" -> [acc EXCEPT !.available = @ + tx.amount]
      [] OTHER -> acc

\* One step of the loop of calculateBalance: the effect of tx on the
\* running (available, locked) pair.
ApplyTx(acc, tx) ==
    IF tx.status # "completed" THEN acc
    ELSE CASE tx.type = "credit" -> [acc EXCEPT !.available = @ + tx.amount]
           [] tx.type = "debit"  -> [acc EXCEPT !.available = @ - tx.amount]
           [] tx.type = "lock"   -> [acc EXCEPT !.available = @ - tx.amount,
                                                !.locked = @ + tx.amount]
           [] tx.type = "unlock" -> [acc EXCEPT !.available = @ + tx.amount,
                                                !.locked = @ - tx.amount]
           [] tx.type = "refund" -> [acc EXCEPT !.available = @ + tx.amount]
           [] OTHER -> acc

RECURSIVE FoldBalance(_, _, _)
FoldBalance(transactions, i, acc) ==
    IF i > Len(transactions) THEN acc
    ELSE FoldBalance(transactions, i + 1, ApplyTx(acc, transactions[i]))

\* Mutant of calculateBalance: total leaves the locked balance out.
calculateBalanceAvailableOnly(transactions) ==
    LET r == FoldBalance(transactions, 1, [available |-> 0, locked |-> 0])
    IN  [available |-> r.available,
         locked    |-> r.locked,
         total     |-> r.available,
         currency  |-> IF Len(transactions) > 0 /\ transactions[1].currency # None
                       THEN transactions[1].currency ELSE "USD"]

calculateBalance(transactions) ==
    LET r == FoldBalance(transactions, 1, [available |-> 0, locked |-> 0])
    IN  [available |-> r.available,
         locked    |-> r.locked,
         total     |-> r.available + r.locked,
         currency  |-> IF Len(transactions) > 0 /\ transactions[1].currency # None
                       THEN transactions[1].currency ELSE "USD"]

\* The result of a call: the entries it returns, or the code of the
\* WalletError it throws (no entry is returned then).
Ok(entries) == [ok |-> TRUE, code |-> "OK", entries |-> entries]
Throw(code) == [ok |-> FALSE, code |-> code, entries |-> << >>]

\* The transaction object every primitive builds from its input.
\* parentTransactionId 0 stands for "not set".
NewTx(type, input, parent) ==
    [type |-> type,
     amount |-> input.amount,
     currency |-> IF input.currency # None THEN input.currency ELSE "USD",
     status |-> "completed",
     referenceType |-> input.referenceType,
     referenceId |-> input.referenceId,
     parentTransactionId |-> parent]

Input(amount, ref) ==
    [amount |-> amount, currency |-> None,
     referenceType |-> ref.referenceType, referenceId |-> ref.referenceId]

OrderInput(amount, orderId) ==
    [amount |-> amount, currency |-> None,
     referenceType |-> "order", referenceId |-> orderId]

credit(input) ==
    IF input.amount <= 0 THEN Throw("INVALID_AMOUNT")
    ELSE Ok(<<NewTx("credit", input, 0)>>)

\* Mutant of debit: the balance check is missing.
debitUnchecked(input, currentBalance) ==
    IF input.amount <= 0 THEN Throw("INVALID_AMOUNT")
    ELSE Ok(<<NewTx("debit", input, 0)>>)

debit(input, currentBalance) ==
    IF input.amount <= 0 THEN Throw("INVALID_AMOUNT")
    ELSE IF currentBalance.available < input.amount THEN Throw("INSUFFICIENT_BALANCE")
    ELSE Ok(<<NewTx("debit", input, 0)>>)

lock(input, currentBalance) ==
    IF input.amount <= 0 THEN Throw("INVALID_AMOUNT")
    ELSE IF currentBalance.available < input.amount THEN Throw("INSUFFICIENT_BALANCE")
    ELSE Ok(<<NewTx("lock", input, 0)>>)

\* Mutant of unlock: the locked-balance check compares with the available
\* balance and reports the code of debit and lock.
unlockAsDebit(input, lockTransactionId, currentBalance) ==
    IF input.amount <= 0 THEN Throw("INVALID_AMOUNT")
    ELSE IF currentBalance.available < input.amount THEN Throw("INSUFFICIENT_BALANCE")
    ELSE Ok(<<NewTx("unlock", input, lockTransactionId)>>)

unlock(input, lockTransactionId, currentBalance) ==
    IF input.amount <= 0 THEN Throw("INVALID_AMOUNT")
    ELSE IF currentBalance.locked < input.amount THEN Throw("INSUFFICIENT_LOCKED_BALANCE")
    ELSE Ok(<<NewTx("unlock", input, lockTransactionId)>>)

refund(input, originalTransactionId) ==
    IF input.amount <= 0 THEN Throw("INVALID_AMOUNT")
    ELSE Ok(<<NewTx("refund", input, originalTransactionId)>>)

processOrderPayment(orderId, amount, currentBalance) ==
    lock(OrderInput(amount, orderId), currentBalance)

\* The two awaited calls of completeOrderPayment, in order.
completeUnlock(orderId, amount, lockTransactionId, currentBalance) ==
    unlock(OrderInput(amount, orderId), lockTransactionId, currentBalance)

\* Mutant of completeDebit: the debit is checked against the balance as it
\* was before the unlock.
completeDebitStale(orderId, amount, currentBalance) ==
    debit(OrderInput(amount, orderId), currentBalance)

completeDebit(orderId, amount, currentBalance) ==
    debit(OrderInput(amount, orderId),
          [currentBalance EXCEPT !.available = currentBalance.available + amount])

\* Mutant of completeOrderPayment: the debit is left out.
completeOrderPaymentNoDebit(orderId, amount, lockTransactionId, currentBalance) ==
    completeUnlock(orderId, amount, lockTransactionId, currentBalance)

completeOrderPayment(orderId, amount, lockTransactionId, currentBalance) ==
    LET u == completeUnlock(orderId, amount, lockTransactionId, currentBalance)
        d == completeDebit(orderId, amount, currentBalance)
    IN  IF ~u.ok THEN u
        ELSE IF ~d.ok THEN d
        ELSE Ok(u.entries \o d.entries)

\* Mutant of cancelOrderPayment: it settles the payment instead.
cancelOrderPaymentSettles(orderId, amount, lockTransactionId, currentBalance) ==
    completeOrderPayment(orderId, amount, lockTransactionId, currentBalance)

cancelOrderPayment(orderId, amount, lockTransactionId, currentBalance) ==
    unlock(OrderInput(amount, orderId), lockTransactionId, currentBalance)

refundOrder(orderId, amount, originalTransactionId) ==
    refund(OrderInput(amount, orderId), originalTransactionId)


(* ---------------------------------------------------------------------- *)
(* Idle values of the parts a specification does not drive.                *)
(* ---------------------------------------------------------------------- *)

NoTrip == [stage |-> "none", amount |-> 0, lockId |-> 0,
           before |-> [available |-> 0, locked |-> 0, total |-> 0]]

NoReq == [op |-> "none", amount |-> 0]

NoRes == Ok(<< >>)

Callers == {1, 2}

WalletIdle ==
    /\ ledger = << >>
    /\ balance = calculateBalance(<< >>)
    /\ trip = NoTrip

CallIdle == req = NoReq /\ res = NoRes

RaceIdle ==
    /\ rpc = [c \in Callers |-> "idle"]
    /\ rsnap = [c \in Callers |-> calculateBalance(<< >>)]
    /\ ramt = [c \in Callers |-> 0]
    /\ rok = [c \in Callers |-> FALSE]

OsmIdle == osm = [fn |-> "none"]

\* ProviderType, and the types the registry's static block registers.
ProviderType == {"manual", "api", "async_api", "webhook", "file_based"}
Registered == {"manual", "api"}

\* The provider classes: the two the registry starts with and one that a
\* later register call brings.
ProviderClasses == {"ManualProvider", "ApiProvider", "CustomProvider"}
InitialClass(type) == IF type = "manual" THEN "ManualProvider" ELSE "ApiProvider"

\* The registry after its static block: manual and api are registered.
RegistryIdle ==
    reg = [providers |-> [t \in ProviderType |->
                            IF t \in Registered THEN InitialClass(t) ELSE None],
           latest |-> [t \in ProviderType |->
                         IF t \in Registered THEN InitialClass(t) ELSE None],
           fn |-> "none", type |-> None, out |-> None]

OrdIdle == ord = [fn |-> "none"]

ExtIdle ==
    /\ ful = [fn |-> "none"]
    /\ sync = [pc |-> "idle"]
    /\ price = [fn |-> "none"]
    /\ RegistryIdle /\ OrdIdle

(* ---------------------------------------------------------------------- *)
(* The ledger of one wallet, driven by a serialising caller: every call is *)
(* given calculateBalance of the current ledger and its entries are        *)
(* appended only when it succeeds.  The caller passes the reference of the *)
(* order it works for; the reference is copied and never read.             *)
(* ---------------------------------------------------------------------- *)

Snapshot(b) == [available |-> b.available, locked |-> b.locked, total |-> b.total]

\* Transaction ids a caller may name: the ids of the entries of the
\* ledger (their positions) and 0, an id no entry has.
TxIds == 0..Len(ledger)

\* Persist the outcome res' of the call just made: its entries are
\* appended, as one unit, when it succeeded and not otherwise.
Persist ==
    /\ Len(ledger) + Len(res'.entries) <= MaxLedger
    /\ ledger' = IF res'.ok THEN ledger \o res'.entries ELSE ledger
    /\ balance' = calculateBalance(ledger')
    /\ UNCHANGED <<raceVars, osm, extVars>>

Credit ==
    \E a \in Amounts :
        /\ req' = [op |-> "credit", amount |-> a]
        /\ res' = credit(Input(a, OrderRef))
        /\ Persist
        /\ trip' = NoTrip

Debit ==
    \E a \in Amounts :
        /\ req' = [op |-> "debit", amount |-> a]
        /\ res' = debit(Input(a, OrderRef), calculateBalance(ledger))
        /\ Persist
        /\ trip' = NoTrip

Lock ==
    \E a \in Amounts :
        /\ req' = [op |-> "lock", amount |-> a]
        /\ res' = lock(Input(a, OrderRef), calculateBalance(ledger))
        /\ Persist
        /\ trip' = NoTrip

Unlock ==
    \E a \in Amounts, id \in TxIds :
        /\ req' = [op |-> "unlock", amount |-> a]
        /\ res' = unlock(Input(a, OrderRef), id, calculateBalance(ledger))
        /\ Persist
        /\ trip' = NoTrip

Refund ==
    \E a \in Amounts, id \in TxIds :
        /\ req' = [op |-> "refund", amount |-> a]
        /\ res' = refund(Input(a, OrderRef), id)
        /\ Persist
        /\ trip' = NoTrip

ProcessOrderPayment ==
    \E a \in Amounts, o \in OrderIds :
        /\ req' = [op |-> "processOrderPayment", amount |-> a]
        /\ res' = processOrderPayment(o, a, calculateBalance(ledger))
        /\ Persist
        /\ trip' = IF res'.ok
                   THEN [stage |-> "locked", amount |-> a, lockId |-> Len(ledger) + 1,
                         before |-> Snapshot(calculateBalance(ledger))]
                   ELSE NoTrip

CompleteOrderPayment ==
    \E a \in Amounts, o \in OrderIds, id \in TxIds :
        /\ req' = [op |-> "completeOrderPayment", amount |-> a]
        /\ res' = completeOrderPayment(o, a, id, calculateBalance(ledger))
        /\ Persist
        /\ trip' = IF res'.ok /\ trip.stage = "locked" /\ trip.amount = a /\ trip.lockId = id
                   THEN [trip EXCEPT !.stage = "completed"]
                   ELSE NoTrip

CancelOrderPayment ==
    \E a \in Amounts, o \in OrderIds, id \in TxIds :
        /\ req' = [op |-> "cancelOrderPayment", amount |-> a]
        /\ res' = cancelOrderPayment(o, a, id, calculateBalance(ledger))
        /\ Persist
        /\ trip' = IF res'.ok /\ trip.stage = "locked" /\ trip.amount = a /\ trip.lockId = id
                   THEN [trip EXCEPT !.stage = "cancelled"]
                   ELSE NoTrip

RefundOrder ==
    \E a \in Amounts, o \in OrderIds, id \in TxIds :
        /\ req' = [op |-> "refundOrder", amount |-> a]
        /\ res' = refundOrder(o, a, id)
        /\ Persist
        /\ trip' = NoTrip

Init == WalletIdle /\ CallIdle /\ RaceIdle /\ OsmIdle /\ ExtIdle

Next ==
    \/ Credit
    \/ Debit
    \/ Lock
    \/ Unlock
    \/ Refund
    \/ ProcessOrderPayment
    \/ CompleteOrderPayment
    \/ CancelOrderPayment
    \/ RefundOrder

Spec == Init /\ [][Next]_vars

\* C1: under a serialising caller, starting from the empty ledger, the
\* available and the locked balance are never negative.
NonNegativeBalance ==
    /\ calculateBalance(ledger).available >= 0
    /\ calculateBalance(ledger).locked >= 0

\* C1 witness: funds were credited, locked and spent, down to zero.
NonNegativeBalanceWitness ==
    /\ Len(ledger) >= 3
    /\ \E i \in 1..Len(ledger) : ledger[i].type = "debit"
    /\ \E i \in 1..Len(ledger) : ledger[i].type = "lock"
    /\ calculateBalance(ledger).available = 0

\* C4: completeOrderPayment returns an unlock and then a debit of the given
\* amount, or fails and returns nothing; in every reachable state its debit
\* check passes whenever its unlock check does.
CompleteAllOrNothing ==
    \A a \in Amounts, o \in OrderIds, id \in TxIds :
        LET b == calculateBalance(ledger)
            u == completeUnlock(o, a, id, b)
            d == completeDebit(o, a, b)
            r == completeOrderPayment(o, a, id, b)
        IN  /\ u.ok => d.ok
            /\ \/ /\ r.ok
                  /\ Len(r.entries) = 2
                  /\ r.entries[1].type = "unlock" /\ r.entries[1].amount = a
                  /\ r.entries[2].type = "debit" /\ r.entries[2].amount = a
               \/ /\ ~r.ok
                  /\ r.entries = << >>

\* C4 witness: a completeOrderPayment went through with nothing left available.
CompleteAllOrNothingWitness ==
    /\ req.op = "completeOrderPayment"
    /\ res.ok
    /\ Len(res.entries) = 2
    /\ balance.available = 0

\* C5: lock by processOrderPayment(a), then completeOrderPayment(a, that
\* lock): available and total are a lower than before the lock, locked is
\* what it was.
CompleteRoundTrip ==
    trip.stage = "completed" =>
        /\ balance.available = trip.before.available - trip.amount
        /\ balance.locked = trip.before.locked
        /\ balance.total = trip.before.total - trip.amount

CompleteRoundTripWitness ==
    /\ trip.stage = "completed"
    /\ trip.amount > 0
    /\ trip.before.available >= trip.amount

\* C6: lock by processOrderPayment(a), then cancelOrderPayment(a, that
\* lock): available, locked and total are what they were before the lock,
\* and the cancellation wrote one entry, an unlock.
CancelRoundTrip ==
    trip.stage = "cancelled" =>
        /\ Snapshot(balance) = trip.before
        /\ Len(ledger) = trip.lockId + 1
        /\ ledger[Len(ledger)].type = "unlock"
        /\ ledger[Len(ledger)].amount = trip.amount

CancelRoundTripWitness ==
    /\ trip.stage = "cancelled"
    /\ trip.amount > 0
    /\ trip.before.available >= trip.amount

\* C7: a debit or lock of more than the available balance is rejected with
\* INSUFFICIENT_BALANCE, an unlock of more than the locked balance with
\* INSUFFICIENT_LOCKED_BALANCE, and a rejected call leaves the ledger and
\* the balance as they were.
RejectedOverdraw ==
    [][ /\ ( /\ req'.op \in {"debit", "lock", "processOrderPayment"}
             /\ req'.amount > balance.available )
            => res'.code = "INSUFFICIENT_BALANCE"
        /\ ( /\ req'.op \in {"unlock", "cancelOrderPayment"}
             /\ req'.amount > balance.locked )
            => res'.code = "INSUFFICIENT_LOCKED_BALANCE"
        /\ ~res'.ok => (res'.entries = << >> /\ ledger' = ledger /\ balance' = balance)
      ]_vars

\* C7 witness: an unlock of more than is locked was rejected on a ledger
\* that holds a lock.
RejectedOverdrawWitness ==
    /\ req.op = "unlock"
    /\ res.code = "INSUFFICIENT_LOCKED_BALANCE"
    /\ balance.locked > 0
    /\ req.amount > balance.locked

(* ---------------------------------------------------------------------- *)
(* calculateBalance over any transaction log persistence may hand over:    *)
(* entries of every type and status, in any order.                         *)
(* ---------------------------------------------------------------------- *)

Currencies == {"USD", "EUR"}

AnyTx ==
    [type : TransactionType,
     amount : 1..MaxAmount,
     currency : Currencies,
     status : TransactionStatus,
     referenceType : {"order"},
     referenceId : {"o1"},
     parentTransactionId : {0}]

\* Persistence holds one more entry.
LoadTx ==
    /\ Len(ledger) < MaxTxs
    /\ \E tx \in AnyTx : ledger' = Append(ledger, tx)
    /\ balance' = calculateBalance(ledger')
    /\ UNCHANGED <<trip, callVars, raceVars, osm, extVars>>

\* Persistence hands the entries over in another order.
ReorderTxs ==
    /\ \E i, j \in 1..Len(ledger) :
          /\ i < j
          /\ ledger' = [ledger EXCEPT ![i] = ledger[j], ![j] = ledger[i]]
    /\ balance' = calculateBalance(ledger')
    /\ UNCHANGED <<trip, callVars, raceVars, osm, extVars>>

NextBalance ==
    \/ LoadTx
    \/ ReorderTxs

SpecBalance == Init /\ [][NextBalance]_vars

\* The sum of the amounts of the completed entries of one type.
RECURSIVE SumAmounts(_, _)
SumAmounts(txs, I) ==
    IF I = {} THEN 0
    ELSE LET i == CHOOSE k \in I : TRUE
         IN  txs[i].amount + SumAmounts(txs, I \ {i})

CompletedOf(txs, type) ==
    SumAmounts(txs, {i \in 1..Len(txs) : txs[i].status = "completed" /\ txs[i].type = type})

Reorderings(txs) ==
    { [i \in 1..Len(txs) |-> txs[p[i]]] :
        p \in {q \in [1..Len(txs) -> 1..Len(txs)] : \A i, j \in 1..Len(txs) : q[i] = q[j] => i = j} }

IsCompleted(tx) == tx.status = "completed"

\* C3: calculateBalance is the sum formula over the completed entries;
\* entries of another status and the order of the entries change nothing
\* of available, locked and total.
BalanceIsSumOfCompleted ==
    LET available == CompletedOf(ledger, "credit") - CompletedOf(ledger, "debit")
                     - CompletedOf(ledger, "lock") + CompletedOf(ledger, "unlock")
                     + CompletedOf(ledger, "refund")
        locked == CompletedOf(ledger, "lock") - CompletedOf(ledger, "unlock")
    IN  /\ balance.available = available
        /\ balance.locked = locked
        /\ balance.total = available + locked
        /\ Snapshot(calculateBalance(SelectSeq(ledger, IsCompleted))) = Snapshot(balance)
        /\ \A txs \in Reorderings(ledger) : Snapshot(calculateBalance(txs)) = Snapshot(balance)

\* C3 witness: a log with a completed lock before a pending entry.
BalanceIsSumOfCompletedWitness ==
    /\ Len(ledger) >= 2
    /\ ledger[1].type = "lock" /\ ledger[1].status = "completed"
    /\ ledger[2].status = "pending"
    /\ balance.locked = ledger[1].amount

(* ---------------------------------------------------------------------- *)
(* One WalletManager call on arguments of the caller's choice.             *)
(* ---------------------------------------------------------------------- *)

\* The balances a caller may hand over: (available, locked) pairs.
BalanceParts == (0..MaxAmount) \X (0..MaxAmount)

WalletBalance(b) ==
    [available |-> b[1], locked |-> b[2], total |-> b[1] + b[2], currency |-> "USD"]

Request(op, a, ref, id, b) ==
    [op |-> op, amount |-> a, referenceType |-> ref.referenceType,
     referenceId |-> ref.referenceId, id |-> id,
     available |-> b[1], locked |-> b[2]]

CallCredit ==
    \E a \in Amounts, ref \in Refs, b \in BalanceParts :
        /\ req' = Request("credit", a, ref, 0, b)
        /\ res' = credit(Input(a, ref))
        /\ UNCHANGED <<walletVars, raceVars, osm, extVars>>

CallDebit ==
    \E a \in Amounts, ref \in Refs, b \in BalanceParts :
        /\ req' = Request("debit", a, ref, 0, b)
        /\ res' = debit(Input(a, ref), WalletBalance(b))
        /\ UNCHANGED <<walletVars, raceVars, osm, extVars>>

CallLock ==
    \E a \in Amounts, ref \in Refs, b \in BalanceParts :
        /\ req' = Request("lock", a, ref, 0, b)
        /\ res' = lock(Input(a, ref), WalletBalance(b))
        /\ UNCHANGED <<walletVars, raceVars, osm, extVars>>

CallUnlock ==
    \E a \in Amounts, ref \in Refs, id \in 0..1, b \in BalanceParts :
        /\ req' = Request("unlock", a, ref, id, b)
        /\ res' = unlock(Input(a, ref), id, WalletBalance(b))
        /\ UNCHANGED <<walletVars, raceVars, osm, extVars>>

CallRefund ==
    \E a \in Amounts, ref \in Refs, id \in 0..1, b \in BalanceParts :
        /\ req' = Request("refund", a, ref, id, b)
        /\ res' = refund(Input(a, ref), id)
        /\ UNCHANGED <<walletVars, raceVars, osm, extVars>>

CallProcessOrderPayment ==
    \E a \in Amounts, o \in OrderIds, b \in BalanceParts :
        /\ req' = Request("processOrderPayment", a, OrderRef, 0, b)
        /\ res' = processOrderPayment(o, a, WalletBalance(b))
        /\ UNCHANGED <<walletVars, raceVars, osm, extVars>>

CallCompleteOrderPayment ==
    \E a \in Amounts, o \in OrderIds, id \in 0..1, b \in BalanceParts :
        /\ req' = Request("completeOrderPayment", a, OrderRef, id, b)
        /\ res' = completeOrderPayment(o, a, id, WalletBalance(b))
        /\ UNCHANGED <<walletVars, raceVars, osm, extVars>>

CallCancelOrderPayment ==
    \E a \in Amounts, o \in OrderIds, id \in 0..1, b \in BalanceParts :
        /\ req' = Request("cancelOrderPayment", a, OrderRef, id, b)
        /\ res' = cancelOrderPayment(o, a, id, WalletBalance(b))
        /\ UNCHANGED <<walletVars, raceVars, osm, extVars>>

CallRefundOrder ==
    \E a \in Amounts, o \in OrderIds, id \in 0..1, b \in BalanceParts :
        /\ req' = Request("refundOrder", a, OrderRef, id, b)
        /\ res' = refundOrder(o, a, id)
        /\ UNCHANGED <<walletVars, raceVars, osm, extVars>>

NextCall ==
    \/ CallCredit
    \/ CallDebit
    \/ CallLock
    \/ CallUnlock
    \/ CallRefund
    \/ CallProcessOrderPayment
    \/ CallCompleteOrderPayment
    \/ CallCancelOrderPayment
    \/ CallRefundOrder

SpecCall == Init /\ [][NextCall]_vars

\* C8: every entry a WalletManager operation returns carries a reference
\* type and a reference id.
EntriesCarryReference ==
    \A i \in 1..Len(res.entries) :
        /\ res.entries[i].referenceType # None
        /\ res.entries[i].referenceId # None

(* ---------------------------------------------------------------------- *)
(* Two callers locking funds of one wallet with no serialisation between   *)
(* them: each reads the log and computes the balance, then calls           *)
(* processOrderPayment with the balance it read and appends the entry.     *)
(* ---------------------------------------------------------------------- *)

InitRace ==
    /\ \E c \in 1..(MaxAmount + 1) :
          ledger = <<NewTx("credit", Input(c, OrderRef), 0)>>
    /\ balance = calculateBalance(ledger)
    /\ trip = NoTrip
    /\ CallIdle /\ RaceIdle /\ OsmIdle /\ ExtIdle

RaceRead(c) ==
    /\ rpc[c] = "idle"
    /\ \E a \in 1..(MaxAmount + 1) : ramt' = [ramt EXCEPT ![c] = a]
    /\ rsnap' = [rsnap EXCEPT ![c] = calculateBalance(ledger)]
    /\ rpc' = [rpc EXCEPT ![c] = "read"]
    /\ UNCHANGED <<walletVars, rok, callVars, osm, extVars>>

\* What processOrderPayment returns to caller c for the balance c read.
RaceResult(c) == processOrderPayment("o1", ramt[c], rsnap[c])

RaceLock(c) ==
    /\ rpc[c] = "read"
    /\ ledger' = IF RaceResult(c).ok THEN ledger \o RaceResult(c).entries ELSE ledger
    /\ rok' = [rok EXCEPT ![c] = RaceResult(c).ok]
    /\ balance' = calculateBalance(ledger')
    /\ rpc' = [rpc EXCEPT ![c] = "done"]
    /\ UNCHANGED <<trip, rsnap, ramt, callVars, osm, extVars>>

NextRace ==
    \E c \in Callers :
        \/ RaceRead(c)
        \/ RaceLock(c)

SpecRace == InitRace /\ [][NextRace]_vars

\* C2: of two locks that each read the balance before the other's entry
\* was appended and that together exceed the available balance, at most
\* one succeeds, and the available balance is not negative.
ConcurrentLocksAtMostOne ==
    ( /\ \A c \in Callers : rpc[c] = "done"
      /\ \A c \in Callers : rsnap[c] = calculateBalance(SubSeq(ledger, 1, 1))
      /\ ramt[1] + ramt[2] > rsnap[1].available )
    => /\ ~(rok[1] /\ rok[2])
       /\ calculateBalance(ledger).available >= 0

(* ---------------------------------------------------------------------- *)
(* OrderStateMachine                                                       *)
(* ---------------------------------------------------------------------- *)

getAllStates ==
    <<"pending", "payment_confirmed", "approved", "processing",
      "delivered", "failed", "refunded", "cancelled">>

OrderStatus == {getAllStates[i] : i \in 1..Len(getAllStates)}

AdminRoles == {"super_admin", "admin"}

\* An edge of the table; gated tells whether requiresRole is set.
Edge(from, to) == [from |-> from, to |-> to, gated |-> FALSE, requiresRole |-> {}]
GatedEdge(from, to, roles) == [from |-> from, to |-> to, gated |-> TRUE, requiresRole |-> roles]

transitions ==
    << Edge("pending", "payment_confirmed"),
       Edge("pending", "cancelled"),
       GatedEdge("payment_confirmed", "approved", AdminRoles),
       Edge("payment_confirmed", "processing"),
       GatedEdge("payment_confirmed", "cancelled", AdminRoles),
       Edge("approved", "processing"),
       GatedEdge("approved", "cancelled", AdminRoles),
       Edge("processing", "delivered"),
       Edge("processing", "failed"),
       Edge("failed", "processing"),
       GatedEdge("failed", "refunded", AdminRoles),
       GatedEdge("failed", "cancelled", AdminRoles),
       GatedEdge("delivered", "refunded", AdminRoles) >>

\* The roles of the users table, and a caller that supplies no role
\* (undefined) or an empty one: both are falsy in the source.
UserRoles == {None, "", "super_admin", "admin", "distributor", "reseller", "customer"}

Truthy(userRole) == userRole # None /\ userRole # ""

\* A TransitionResult; reason << >> stands for "no reason given".
TransitionResult(allowed, reason) == [allowed |-> allowed, reason |-> reason]

\* Mutant of canTransition: a pair missing from the table is refused
\* without a reason.
canTransitionSilent(from, to, userRole) ==
    IF from = to THEN TransitionResult(TRUE, << >>)
    ELSE LET found == SelectSeq(transitions, LAMBDA t : t.from = from /\ t.to = to)
         IN  IF found = << >>
             THEN TransitionResult(FALSE, << >>)
             ELSE LET transition == found[1]
                  IN  IF transition.gated /\ Truthy(userRole)
                         /\ userRole \notin transition.requiresRole
                      THEN TransitionResult(FALSE, <<"Role '", userRole, "' cannot perform this transition">>)
                      ELSE TransitionResult(TRUE, << >>)

canTransition(from, to, userRole) ==
    IF from = to THEN TransitionResult(TRUE, << >>)
    ELSE LET found == SelectSeq(transitions, LAMBDA t : t.from = from /\ t.to = to)
         IN  IF found = << >>
             THEN TransitionResult(FALSE, <<"Transition from '", from, "' to '", to, "' is not allowed">>)
             ELSE LET transition == found[1]
                  IN  IF transition.gated /\ Truthy(userRole)
                         /\ userRole \notin transition.requiresRole
                      THEN TransitionResult(FALSE, <<"Role '", userRole, "' cannot perform this transition">>)
                      ELSE TransitionResult(TRUE, << >>)

RECURSIVE MapTo(_)
MapTo(ts) == IF ts = << >> THEN << >> ELSE <<Head(ts).to>> \o MapTo(Tail(ts))

getAvailableTransitions(currentStatus, userRole) ==
    LET fromHere == SelectSeq(transitions, LAMBDA t : t.from = currentStatus)
        open == SelectSeq(fromHere,
                          LAMBDA t : IF ~t.gated \/ ~Truthy(userRole) THEN TRUE
                                     ELSE userRole \in t.requiresRole)
    IN  MapTo(open)

isTerminalState(status) == status \in {"delivered", "refunded", "cancelled"}

\* One call of the state machine by the order manager or by provider sync.
CanTransition ==
    \E from \in OrderStatus, to \in OrderStatus, userRole \in UserRoles :
        /\ osm' = [fn |-> "canTransition", from |-> from, to |-> to,
                   userRole |-> userRole, out |-> canTransition(from, to, userRole)]
        /\ UNCHANGED <<walletVars, callVars, raceVars, extVars>>

GetAvailableTransitions ==
    \E from \in OrderStatus, userRole \in UserRoles :
        /\ osm' = [fn |-> "getAvailableTransitions", from |-> from,
                   userRole |-> userRole, out |-> getAvailableTransitions(from, userRole)]
        /\ UNCHANGED <<walletVars, callVars, raceVars, extVars>>

IsTerminalState ==
    \E from \in OrderStatus :
        /\ osm' = [fn |-> "isTerminalState", from |-> from, out |-> isTerminalState(from)]
        /\ UNCHANGED <<walletVars, callVars, raceVars, extVars>>

NextOsm ==
    \/ CanTransition
    \/ GetAvailableTransitions
    \/ IsTerminalState

SpecOsm == Init /\ [][NextOsm]_vars

\* C9: from a terminal status canTransition allows no other status,
\* whatever the caller's role, and getAvailableTransitions returns nothing.
TerminalHasNoWayOut ==
    /\ ( /\ osm.fn = "canTransition"
         /\ isTerminalState(osm.from)
         /\ osm.to # osm.from )
       => ~osm.out.allowed
    /\ ( /\ osm.fn = "getAvailableTransitions"
         /\ isTerminalState(osm.from) )
       => osm.out = << >>

\* C10: an edge that carries a required-role set is refused to every caller
\* whose role is not in the set, a caller that supplies no role included.
GatedEdgeNeedsRole ==
    ( /\ osm.fn = "canTransition"
      /\ \E i \in 1..Len(transitions) :
            /\ transitions[i].from = osm.from
            /\ transitions[i].to = osm.to
            /\ transitions[i].gated
            /\ osm.userRole \notin transitions[i].requiresRole )
    => ~osm.out.allowed

\* C11: for two distinct statuses that are not an edge of the table,
\* canTransition answers allowed = false and gives a non-empty reason,
\* whatever role the caller has.
UnlistedPairRefused ==
    ( /\ osm.fn = "canTransition"
      /\ osm.from # osm.to
      /\ \A i \in 1..Len(transitions) :
            ~(transitions[i].from = osm.from /\ transitions[i].to = osm.to) )
    => ( /\ osm.out.allowed = FALSE
         /\ osm.out.reason # << >> )

\* C11 witness: an admin asks for delivered -> processing and is refused.
UnlistedPairRefusedWitness ==
    /\ osm.fn = "canTransition"
    /\ osm.from = "delivered" /\ osm.to = "processing"
    /\ osm.userRole = "admin"
    /\ osm.out.allowed = FALSE
    /\ osm.out.reason # << >>

(* ---------------------------------------------------------------------- *)
(* Providers: BaseProvider, ApiProvider, ManualProvider, ProviderRegistry  *)
(* ---------------------------------------------------------------------- *)

\* What a provider endpoint may put in data.status.
RawStatuses == {"done", "success", "completed"}

\* A provider's status_mapping: the keys it may have an entry for and the
\* values an entry may hold; None says the mapping has no entry for the key.
MappingKeys == {"done", "completed", "error"}
MappingValues == {"completed", "failed", "refunded", "SUCCESS"}
StatusMappings == [MappingKeys -> MappingValues \cup {None}]

\* The providers table: type, whether config.apiUrl is set, status_mapping.
\* One unregistered type stands for the three the registry does not know.
Providers ==
    [type : {"manual", "api", "webhook"}, apiUrl : BOOLEAN, statusMapping : StatusMappings]

\* The answer of the provider endpoint to one fetch.
EndpointReplies ==
    [kind : {"network_error", "http_error"}, status : {None}]
        \cup [kind : {"ok"}, status : RawStatuses]

\* BaseProvider.mapStatus: this.config.statusMapping[providerStatus] || 'processing'
mapStatus(statusMapping, providerStatus) ==
    IF providerStatus \in DOMAIN statusMapping /\ Truthy(statusMapping[providerStatus])
    THEN statusMapping[providerStatus]
    ELSE "processing"

\* normalizeStatus of ApiProvider and of ManualProvider.
normalizeStatus(provider, providerStatus) == mapStatus(provider.statusMapping, providerStatus)

\* ProviderRegistry.create throws for a type nobody registered.
createThrows(provider) == provider.type \notin Registered

validateInput(provider) ==
    IF provider.type = "api" THEN [valid |-> provider.apiUrl] ELSE [valid |-> TRUE]

ProviderOrderResponse(success, status, code) ==
    [success |-> success, status |-> status, code |-> code]

\* The fetch throws when the endpoint cannot be reached, and also when
\* config.apiUrl is not set: there is no URL to reach then.
fetchThrows(provider, reply) == ~provider.apiUrl \/ reply.kind = "network_error"

ApiPlaceOrder(provider, reply) ==
    IF fetchThrows(provider, reply) THEN ProviderOrderResponse(FALSE, "failed", "NETWORK_ERROR")
    ELSE IF reply.kind = "http_error" THEN ProviderOrderResponse(FALSE, "failed", "API_ERROR")
    ELSE ProviderOrderResponse(TRUE, normalizeStatus(provider, reply.status), None)

ManualPlaceOrder == ProviderOrderResponse(TRUE, "pending_manual", None)

placeOrder(provider, reply) ==
    IF provider.type = "api" THEN ApiPlaceOrder(provider, reply) ELSE ManualPlaceOrder

\* A ProviderStatusResponse; data tells what the data field carries.
ProviderStatusResponse(status, data) == [status |-> status, data |-> data]

\* ApiProvider.checkStatus: a failed fetch or a non-2xx answer is caught and
\* returned as the status 'error'.
ApiCheckStatus(provider, reply) ==
    IF fetchThrows(provider, reply) \/ reply.kind = "http_error" THEN ProviderStatusResponse("error", "error")
    ELSE ProviderStatusResponse(normalizeStatus(provider, reply.status), "payload")

ManualCheckStatus == ProviderStatusResponse("pending_manual", "message")

checkStatus(provider, reply) ==
    IF provider.type = "api" THEN ApiCheckStatus(provider, reply) ELSE ManualCheckStatus

(* ---------------------------------------------------------------------- *)
(* OrderManager.fulfillOrder                                               *)
(* ---------------------------------------------------------------------- *)

\* OrderManager.mapProviderStatusToOrderStatus: statusMap[s] || 'processing'
managerMapProviderStatusToOrderStatus(providerStatus) ==
    CASE providerStatus \in {"pending", "processing"} -> "processing"
      [] providerStatus \in {"completed", "delivered"} -> "delivered"
      [] providerStatus \in {"failed", "error"} -> "failed"
      [] OTHER -> "processing"

OrderFulfillmentResult(success, status, code) ==
    [success |-> success, status |-> status, code |-> code]

\* Mutant of fulfillOrder: a failure of the provider's placeOrder is
\* reported under the manager's own code.
fulfillOrderRewraps(order, provider, reply) ==
    IF createThrows(provider)
    THEN OrderFulfillmentResult(FALSE, "failed", "FULFILLMENT_ERROR")
    ELSE IF ~validateInput(provider).valid
    THEN OrderFulfillmentResult(FALSE, "failed", "PROVIDER_VALIDATION_ERROR")
    ELSE IF ~placeOrder(provider, reply).success
    THEN OrderFulfillmentResult(FALSE, "failed", "FULFILLMENT_ERROR")
    ELSE OrderFulfillmentResult(
             TRUE,
             managerMapProviderStatusToOrderStatus(
                 normalizeStatus(provider, placeOrder(provider, reply).status)),
             None)

\* fulfillOrder(order, service, provider), given what the endpoint answers.
\* The status of the order is not read anywhere in it.
fulfillOrder(order, provider, reply) ==
    IF createThrows(provider)
    THEN OrderFulfillmentResult(FALSE, "failed", "FULFILLMENT_ERROR")
    ELSE IF ~validateInput(provider).valid
    THEN OrderFulfillmentResult(FALSE, "failed", "PROVIDER_VALIDATION_ERROR")
    ELSE IF ~placeOrder(provider, reply).success
    THEN OrderFulfillmentResult(FALSE, "failed", placeOrder(provider, reply).code)
    ELSE OrderFulfillmentResult(
             TRUE,
             managerMapProviderStatusToOrderStatus(
                 normalizeStatus(provider, placeOrder(provider, reply).status)),
             None)

\* Orders as fulfilment and sync see them: the status, and whether a
\* providerOrderId is stored.
Orders == [status : OrderStatus, providerOrderId : BOOLEAN]

\* A call of fulfillOrder that has not returned yet.
InitFulfil ==
    /\ WalletIdle /\ CallIdle /\ RaceIdle /\ OsmIdle
    /\ sync = [pc |-> "idle"]
    /\ price = [fn |-> "none"]
    /\ RegistryIdle /\ OrdIdle
    /\ \E order \in Orders, provider \in Providers, reply \in EndpointReplies :
          ful = [fn |-> "called", order |-> order, provider |-> provider,
                 reply |-> reply, out |-> OrderFulfillmentResult(FALSE, None, None)]

FulfillOrder ==
    /\ ful.fn = "called"
    /\ ful' = [ful EXCEPT !.fn = "fulfillOrder",
                          !.out = fulfillOrder(ful.order, ful.provider, ful.reply)]
    /\ UNCHANGED <<walletVars, callVars, raceVars, osm, sync, price, reg, ord>>

NextFulfil == FulfillOrder

SpecFulfil == InitFulfil /\ [][NextFulfil]_vars

\* C12: the status fulfillOrder returns is one that canTransition allows
\* from the status the order has.
FulfilRespectsStateMachine ==
    ful.fn = "fulfillOrder"
    => canTransition(ful.order.status, ful.out.status, None).allowed

\* The fixed map of the order manager, as a table of its own: the order
\* status that belongs to a canonical status.
FixedMapTarget(canonical) ==
    IF canonical \in {"completed", "delivered"} THEN "delivered"
    ELSE IF canonical \in {"failed", "error"} THEN "failed"
    ELSE "processing"

\* C15: when an Api provider places the order successfully, fulfillOrder
\* returns the fixed map of the canonical status that status_mapping gives
\* the raw status: delivered for completed or delivered, failed for failed
\* or error, processing for pending, processing or a raw status without
\* an entry.
FulfilAppliesFixedMap ==
    ( /\ ful.fn = "fulfillOrder"
      /\ ful.provider.type = "api"
      /\ ful.provider.apiUrl
      /\ ful.reply.kind = "ok"
      /\ mapStatus(ful.provider.statusMapping, ful.reply.status)
            \in {"pending", "processing", "completed", "delivered", "failed", "error"} )
    => ( /\ ful.out.success
         /\ ful.out.status
              = FixedMapTarget(mapStatus(ful.provider.statusMapping, ful.reply.status)) )

(* ---------------------------------------------------------------------- *)
(* ProviderSync: syncOrder and the loop of syncOrders                      *)
(* ---------------------------------------------------------------------- *)

\* The longest batch syncOrders is given.
MaxOrders == 2

\* String.toLowerCase on the status vocabulary: SUCCESS is its only word
\* that is not in lower case already.
toLowerCase(str) == IF str = "SUCCESS" THEN "success" ELSE str

\* ProviderSync.mapProviderStatusToOrderStatus:
\* statusMap[providerStatus.toLowerCase()] || 'processing'
syncMapProviderStatusToOrderStatus(providerStatus) ==
    CASE toLowerCase(providerStatus) \in {"pending", "processing"} -> "processing"
      [] toLowerCase(providerStatus) \in {"completed", "delivered", "success"} -> "delivered"
      [] toLowerCase(providerStatus) \in {"failed", "error"} -> "failed"
      [] toLowerCase(providerStatus) = "cancelled" -> "cancelled"
      [] toLowerCase(providerStatus) = "refunded" -> "refunded"
      [] OTHER -> "processing"

\* What syncOrder returns; update is << >> when there is none.
SyncFailure(error) == [success |-> FALSE, error |-> error, update |-> << >>]
SyncSuccess(update) == [success |-> TRUE, error |-> None, update |-> <<update>>]

OrderSyncUpdate(providerStatus, normalizedStatus, outputData) ==
    [providerStatus |-> providerStatus, normalizedStatus |-> normalizedStatus,
     outputData |-> outputData]

\* The order status syncOrder computes from the provider's answer.
syncTargetStatus(provider, reply) ==
    syncMapProviderStatusToOrderStatus(
        normalizeStatus(provider, checkStatus(provider, reply).status))

syncOrder(order, provider, reply) ==
    IF ~order.providerOrderId THEN SyncFailure("Order has no provider order ID")
    ELSE IF createThrows(provider) THEN SyncFailure("Provider type not registered")
    ELSE IF ~canTransition(order.status, syncTargetStatus(provider, reply), None).allowed
    THEN SyncFailure("Invalid status transition")
    ELSE SyncSuccess(OrderSyncUpdate(checkStatus(provider, reply).status,
                                     syncTargetStatus(provider, reply),
                                     checkStatus(provider, reply).data))

\* syncOrders(orders, provider) begins: the counters are zero.  n is the
\* length of orders; the orders themselves are drawn as the loop meets them.
SyncOrdersStart ==
    /\ sync.pc = "idle"
    /\ \E provider \in Providers, n \in 0..MaxOrders :
          sync' = [pc |-> "loop", provider |-> provider, n |-> n, i |-> 0,
                   syncedCount |-> 0, failedCount |-> 0, errors |-> << >>]
    /\ UNCHANGED <<walletVars, callVars, raceVars, osm, ful, price, reg, ord>>

\* One pass of the for loop: syncOrder on the next order, then the count.
SyncOrdersStep ==
    /\ sync.pc = "loop"
    /\ sync.i < sync.n
    /\ \E order \in Orders, reply \in EndpointReplies :
          sync' = [pc |-> "loop", provider |-> sync.provider, n |-> sync.n,
                   i |-> sync.i + 1,
                   order |-> order, reply |-> reply,
                   out |-> syncOrder(order, sync.provider, reply),
                   syncedCount |-> IF syncOrder(order, sync.provider, reply).success
                                   THEN sync.syncedCount + 1 ELSE sync.syncedCount,
                   failedCount |-> IF syncOrder(order, sync.provider, reply).success
                                   THEN sync.failedCount ELSE sync.failedCount + 1,
                   errors |-> IF syncOrder(order, sync.provider, reply).success
                              THEN sync.errors
                              ELSE Append(sync.errors, sync.i + 1)]
    /\ UNCHANGED <<walletVars, callVars, raceVars, osm, ful, price, reg, ord>>

\* The loop is over: syncOrders returns its SyncResult.
SyncOrdersReturn ==
    /\ sync.pc = "loop"
    /\ sync.i = sync.n
    /\ sync' = [pc |-> "done", provider |-> sync.provider, n |-> sync.n,
                success |-> (sync.failedCount = 0),
                syncedCount |-> sync.syncedCount, failedCount |-> sync.failedCount,
                errors |-> sync.errors]
    /\ UNCHANGED <<walletVars, callVars, raceVars, osm, ful, price, reg, ord>>

NextSync ==
    \/ SyncOrdersStart
    \/ SyncOrdersStep
    \/ SyncOrdersReturn

SpecSync == Init /\ [][NextSync]_vars

\* syncOrder has just run on sync.order.
Synced == sync.pc = "loop" /\ sync.i > 0

\* C13: for an order in a terminal status syncOrder never returns success
\* with an update whose normalizedStatus is another status.
TerminalOrderNotUpdated ==
    ( /\ Synced
      /\ isTerminalState(sync.order.status)
      /\ sync.out.success )
    => sync.out.update[1].normalizedStatus = sync.order.status

\* C14: an order that is processing is synced through a registered Api
\* provider and the endpoint reports a raw status that means delivered
\* (success, or one status_mapping maps to completed, delivered or success):
\* syncOrder returns success and an update with normalizedStatus delivered.
DeliveredReportIsAccepted ==
    ( /\ Synced
      /\ sync.order.status = "processing"
      /\ sync.order.providerOrderId
      /\ sync.provider.type = "api"
      /\ sync.provider.apiUrl
      /\ sync.reply.kind = "ok"
      /\ \/ sync.reply.status = "success"
         \/ mapStatus(sync.provider.statusMapping, sync.reply.status)
               \in {"completed", "delivered", "success"} )
    => ( /\ sync.out.success
         /\ sync.out.update # << >>
         /\ sync.out.update[1].normalizedStatus = "delivered" )

\* C16: when the status check of an order fails (the endpoint cannot be
\* reached or answers non-2xx), syncOrder returns success = false with an
\* error and without an update, and syncOrders counts the order as failed.
OutageIsAFailedSync ==
    [][ ( /\ sync.pc = "loop"
          /\ sync'.pc = "loop"
          /\ sync'.i = sync.i + 1
          /\ sync'.order.providerOrderId
          /\ sync'.provider.type = "api"
          /\ sync'.reply.kind \in {"network_error", "http_error"} )
        => ( /\ sync'.out.success = FALSE
             /\ sync'.out.error # None
             /\ sync'.out.update = << >>
             /\ sync'.failedCount = sync.failedCount + 1
             /\ sync'.syncedCount = sync.syncedCount ) ]_vars

(* ---------------------------------------------------------------------- *)
(* PricingEngine                                                           *)
(* ---------------------------------------------------------------------- *)

\* Basis points of 100%: percentage and tier markups are divided by it.
BasisPoints == 10000

\* The largest order quantity and tier boundary, the longest tier list.
MaxQuantity == 2
MaxTiers == 2

\* An optional number: Undefined when the field is not set, Some(x) when
\* it holds x.
Undefined == << >>
Some(x) == <<x>>
IsSet(o) == o # << >>
Val(o) == o[1]

MarkupType == {"fixed", "percentage", "tiered"}

\* Base costs in cents; 10007 makes the floor of the division visible.
BaseCosts == {0, 10000, 10007}

\* markupValue of a rule: negative, zero, a fixed amount, 10%, above 100%.
MarkupValues == {-1, 0, 200, 1000, 10001}

\* minProfit / maxProfit of a rule.
Profits == {Undefined, Some(-5), Some(500)}

Quantities == 1..MaxQuantity

\* The tiers of a tierConfig: [minQuantity, maxQuantity], with maxQuantity
\* not set for a tier that is unbounded above.
TierMarkups == {1000, 2500}
Tiers ==
    { t \in [minQuantity : Quantities,
             maxQuantity : {Undefined} \cup {Some(q) : q \in Quantities},
             markupValue : TierMarkups] :
        IsSet(t.maxQuantity) => t.minQuantity <= Val(t.maxQuantity) }

RECURSIVE SeqsUpTo(_, _)
SeqsUpTo(S, n) ==
    IF n = 0 THEN {<< >>}
    ELSE SeqsUpTo(S, n - 1)
            \cup {Append(q, x) : q \in {r \in SeqsUpTo(S, n - 1) : Len(r) = n - 1}, x \in S}

\* rule.tierConfig: not set, or set with the list tierConfig.tiers.
TierConfigs == {Undefined} \cup {Some(tiers) : tiers \in SeqsUpTo(Tiers, MaxTiers)}

PricingRoles == {"reseller", "customer"}

PricingRule(role, markupType, markupValue, minProfit, maxProfit, tierConfig) ==
    [role |-> role, markupType |-> markupType, markupValue |-> markupValue,
     minProfit |-> minProfit, maxProfit |-> maxProfit, tierConfig |-> tierConfig]

\* Fixed and percentage rules of a role; they carry no tierConfig.
FlatRules(role) ==
    { PricingRule(role, type, v, lo, hi, Undefined) :
        type \in {"fixed", "percentage"},
        v \in MarkupValues, lo \in Profits, hi \in Profits }

\* Tiered rules of a role with markupValue in values; calculatePrice does
\* not read the markupValue of a tiered rule, validateRule does.
TieredRules(role, values) ==
    { PricingRule(role, "tiered", v, lo, hi, cfg) :
        v \in values, lo \in Profits, hi \in Profits, cfg \in TierConfigs }

PricingRules(role) == FlatRules(role) \cup TieredRules(role, {0})

\* Rules without limits, to build rule lists of several rules from.
SimpleRules ==
    { PricingRule(role, "fixed", v, Undefined, Undefined, Undefined) :
        role \in PricingRoles, v \in {200, 1000} }

\* The rule lists calculatePrice is given: none, one rule of any kind for
\* the reseller, or two simple rules in either order.
RuleLists ==
    {<< >>}
        \cup {<<r>> : r \in PricingRules("reseller")}
        \cup {<<a, b>> : a \in SimpleRules, b \in SimpleRules}

\* Math.floor((baseCost * value) / 10000)
MarkupOf(baseCost, value) == (baseCost * value) \div BasisPoints

meetsTier(t, quantity) ==
    /\ quantity >= t.minQuantity
    /\ (~IsSet(t.maxQuantity) \/ quantity <= Val(t.maxQuantity))

\* calculateTieredMarkup; Undefined stands for the TypeError of reading
\* markupValue of tiers[0] when tiers is empty.
calculateTieredMarkup(baseCost, tiers, quantity) ==
    LET matching == SelectSeq(tiers, LAMBDA t : meetsTier(t, quantity))
    IN  IF matching # << >> THEN Some(MarkupOf(baseCost, matching[1].markupValue))
        ELSE IF tiers = << >> THEN Undefined
        ELSE Some(MarkupOf(baseCost, tiers[1].markupValue))

\* The switch on rule.markupType of calculatePrice; Undefined when it throws.
rawMarkup(baseCost, rule, quantity) ==
    CASE rule.markupType = "fixed" -> Some(rule.markupValue)
      [] rule.markupType = "percentage" -> Some(MarkupOf(baseCost, rule.markupValue))
      [] rule.markupType = "tiered" ->
            IF ~IsSet(rule.tierConfig) THEN Some(0)
            ELSE calculateTieredMarkup(baseCost, Val(rule.tierConfig), quantity)

\* Mutant of applyProfitLimits: the cap is applied before the floor.
applyProfitLimitsCapFirst(rule, markup) ==
    LET capped == IF IsSet(rule.maxProfit) /\ markup > Val(rule.maxProfit)
                  THEN Val(rule.maxProfit) ELSE markup
    IN  IF IsSet(rule.minProfit) /\ capped < Val(rule.minProfit)
        THEN Val(rule.minProfit) ELSE capped

\* "Apply profit limits": raise to minProfit, then cap at maxProfit.
applyProfitLimits(rule, markup) ==
    LET raised == IF IsSet(rule.minProfit) /\ markup < Val(rule.minProfit)
                  THEN Val(rule.minProfit) ELSE markup
    IN  IF IsSet(rule.maxProfit) /\ raised > Val(rule.maxProfit)
        THEN Val(rule.maxProfit) ELSE raised

\* A PriceCalculation; appliedRule is << >> when no rule was applied.
PriceCalculation(baseCost, markup, totalAmount, profit, appliedRule) ==
    [threw |-> FALSE, baseCost |-> baseCost, markup |-> markup,
     totalAmount |-> totalAmount, profit |-> profit, appliedRule |-> appliedRule]

\* calculatePrice ended with the TypeError of calculateTieredMarkup.
PriceThrown ==
    [threw |-> TRUE, baseCost |-> 0, markup |-> 0,
     totalAmount |-> 0, profit |-> 0, appliedRule |-> << >>]

\* rules.find(r => r.role === userRole): the matching rules, first first.
findRule(rules, userRole) == SelectSeq(rules, LAMBDA r : r.role = userRole)

\* Mutant of calculatePrice: the profit limits are not applied.
calculatePriceUnclamped(baseCost, rules, userRole, quantity) ==
    IF findRule(rules, userRole) = << >>
    THEN PriceCalculation(baseCost, 0, baseCost * quantity, 0, << >>)
    ELSE LET rule == findRule(rules, userRole)[1]
             raw == rawMarkup(baseCost, rule, quantity)
         IN  IF ~IsSet(raw) THEN PriceThrown
             ELSE PriceCalculation(baseCost, Val(raw), (baseCost + Val(raw)) * quantity,
                                   Val(raw) * quantity, <<rule>>)

calculatePrice(baseCost, rules, userRole, quantity) ==
    IF findRule(rules, userRole) = << >>
    THEN PriceCalculation(baseCost, 0, baseCost * quantity, 0, << >>)
    ELSE LET rule == findRule(rules, userRole)[1]
             raw == rawMarkup(baseCost, rule, quantity)
         IN  IF ~IsSet(raw) THEN PriceThrown
             ELSE LET markup == applyProfitLimits(rule, Val(raw))
                  IN  PriceCalculation(baseCost, markup, (baseCost + markup) * quantity,
                                       markup * quantity, <<rule>>)

\* A call of calculatePrice that has not returned yet.
InitPrice ==
    /\ WalletIdle /\ CallIdle /\ RaceIdle /\ OsmIdle
    /\ ful = [fn |-> "none"]
    /\ sync = [pc |-> "idle"]
    /\ RegistryIdle /\ OrdIdle
    /\ \E baseCost \in BaseCosts, rules \in RuleLists,
          userRole \in PricingRoles, quantity \in Quantities :
          price = [fn |-> "called", baseCost |-> baseCost, rules |-> rules,
                   userRole |-> userRole, quantity |-> quantity,
                   out |-> PriceThrown]

CalculatePrice ==
    /\ price.fn = "called"
    /\ price' = [price EXCEPT
                    !.fn = "calculatePrice",
                    !.out = calculatePrice(price.baseCost, price.rules,
                                           price.userRole, price.quantity)]
    /\ UNCHANGED <<walletVars, callVars, raceVars, osm, ful, sync, reg, ord>>

NextPrice == CalculatePrice

SpecPrice == InitPrice /\ [][NextPrice]_vars

\* Array.prototype.sort with (a, b) => a.minQuantity - b.minQuantity: a
\* stable sort, done here by insertion.
RECURSIVE insertTier(_, _)
insertTier(sorted, t) ==
    IF sorted = << >> THEN <<t>>
    ELSE IF Head(sorted).minQuantity <= t.minQuantity
         THEN <<Head(sorted)>> \o insertTier(Tail(sorted), t)
         ELSE <<t>> \o sorted

RECURSIVE sortTiers(_)
sortTiers(tiers) ==
    IF tiers = << >> THEN << >>
    ELSE insertTier(sortTiers(SubSeq(tiers, 1, Len(tiers) - 1)), tiers[Len(tiers)])

\* The loop over neighbours of validateRule: current.maxQuantity &&
\* current.maxQuantity >= next.minQuantity.  A maxQuantity that is not set,
\* or 0, is falsy.
overlapDetected(tiers) ==
    \E i \in 1..(Len(tiers) - 1) :
        /\ IsSet(tiers[i].maxQuantity)
        /\ Val(tiers[i].maxQuantity) # 0
        /\ Val(tiers[i].maxQuantity) >= tiers[i + 1].minQuantity

\* The errors validateRule collects, in the order it pushes them.
validationErrors(rule) ==
    (IF rule.markupValue < 0 THEN <<"Markup value cannot be negative">> ELSE << >>)
    \o (IF rule.markupType = "percentage" /\ rule.markupValue > BasisPoints
        THEN <<"Percentage markup cannot exceed 100% (10000 basis points)">> ELSE << >>)
    \o (IF /\ IsSet(rule.minProfit) /\ IsSet(rule.maxProfit)
           /\ Val(rule.minProfit) > Val(rule.maxProfit)
        THEN <<"Minimum profit cannot exceed maximum profit">> ELSE << >>)
    \o (IF rule.markupType # "tiered" THEN << >>
        ELSE IF ~IsSet(rule.tierConfig) \/ Val(rule.tierConfig) = << >>
        THEN <<"Tiered markup requires tier configuration">>
        ELSE IF overlapDetected(sortTiers(Val(rule.tierConfig)))
        THEN <<"Tier ranges cannot overlap">>
        ELSE << >>)

\* validateRule: valid and errors; tierConfig is what the rule holds
\* afterwards, its tiers sorted in place.
validateRule(rule) ==
    [valid |-> validationErrors(rule) = << >>,
     errors |-> validationErrors(rule),
     tierConfig |-> IF rule.markupType = "tiered" /\ IsSet(rule.tierConfig)
                    THEN Some(sortTiers(Val(rule.tierConfig)))
                    ELSE rule.tierConfig]

\* The rules validateRule is given.
ValidatedRules == FlatRules("reseller") \cup TieredRules("reseller", {-1, 0})

\* A call of validateRule that has not returned yet.
InitRule ==
    /\ WalletIdle /\ CallIdle /\ RaceIdle /\ OsmIdle
    /\ ful = [fn |-> "none"]
    /\ sync = [pc |-> "idle"]
    /\ RegistryIdle /\ OrdIdle
    /\ \E rule \in ValidatedRules :
          price = [fn |-> "called", rule |-> rule,
                   out |-> [valid |-> FALSE, errors |-> << >>, tierConfig |-> Undefined]]

ValidateRule ==
    /\ price.fn = "called"
    /\ price' = [price EXCEPT !.fn = "validateRule", !.out = validateRule(price.rule)]
    /\ UNCHANGED <<walletVars, callVars, raceVars, osm, ful, sync, reg, ord>>

NextRule == ValidateRule

SpecRule == InitRule /\ [][NextRule]_vars

\* calculatePrice has returned and a rule was applied.
Priced == price.fn = "calculatePrice" /\ ~price.out.threw

AppliedRule == price.out.appliedRule[1]

\* C17: for a rule validateRule accepts, a base cost >= 0 and a quantity
\* >= 1, the markup calculatePrice returns is >= 0 and totalAmount is at
\* least baseCost * quantity.
MarkupNeverNegative ==
    ( /\ Priced
      /\ price.out.appliedRule # << >>
      /\ validateRule(AppliedRule).valid
      /\ price.baseCost >= 0
      /\ price.quantity >= 1 )
    => ( /\ price.out.markup >= 0
         /\ price.out.totalAmount >= price.baseCost * price.quantity )

\* The raw markup of the applied rule is below its minProfit.
BelowMinProfit ==
    /\ Priced
    /\ price.out.appliedRule # << >>
    /\ IsSet(AppliedRule.minProfit)
    /\ Val(rawMarkup(price.baseCost, AppliedRule, price.quantity))
          < Val(AppliedRule.minProfit)

\* C18 as stated: for every rule with minProfit set whose raw markup is
\* below minProfit, calculatePrice returns markup = minProfit.
RaisedToMinProfitAlways ==
    BelowMinProfit => price.out.markup = Val(AppliedRule.minProfit)

\* C18: for a rule with minProfit set whose raw markup is below minProfit,
\* and whose maxProfit is not set or not below minProfit, calculatePrice
\* returns markup = minProfit.
RaisedToMinProfit ==
    ( /\ BelowMinProfit
      /\ IsSet(AppliedRule.maxProfit)
            => Val(AppliedRule.maxProfit) >= Val(AppliedRule.minProfit) )
    => price.out.markup = Val(AppliedRule.minProfit)

\* C18 witness: a fixed markup of 200 under minProfit 500 is raised to 500.
RaisedToMinProfitWitness ==
    /\ BelowMinProfit
    /\ AppliedRule.markupType = "fixed"
    /\ AppliedRule.markupValue = 200
    /\ AppliedRule.minProfit = Some(500)
    /\ price.out.markup = 500

\* The reference computation of a price, stated without the code's steps.
\* The floor of n / BasisPoints, through the remainder.
RefFloor(n) == (n - (n % BasisPoints)) \div BasisPoints

Max2(a, b) == IF a >= b THEN a ELSE b
Min2(a, b) == IF a <= b THEN a ELSE b

\* The positions of the tiers whose range contains the quantity.
RefContaining(tiers, quantity) ==
    { i \in 1..Len(tiers) :
        /\ tiers[i].minQuantity <= quantity
        /\ (tiers[i].maxQuantity = Undefined \/ quantity <= tiers[i].maxQuantity[1]) }

\* The tier that applies: the first one containing the quantity, and the
\* first configured tier when none contains it.
RefTier(tiers, quantity) ==
    IF RefContaining(tiers, quantity) = {} THEN tiers[1]
    ELSE tiers[CHOOSE i \in RefContaining(tiers, quantity) :
                   \A j \in RefContaining(tiers, quantity) : i <= j]

RefRawMarkup(baseCost, rule, quantity) ==
    IF rule.markupType = "fixed" THEN rule.markupValue
    ELSE IF rule.markupType = "percentage" THEN RefFloor(baseCost * rule.markupValue)
    ELSE RefFloor(baseCost * RefTier(rule.tierConfig[1], quantity).markupValue)

RefClamped(rule, raw) ==
    LET floored == IF rule.minProfit = Undefined THEN raw
                   ELSE Max2(raw, rule.minProfit[1])
    IN  IF rule.maxProfit = Undefined THEN floored
        ELSE Min2(floored, rule.maxProfit[1])

\* The first rule of the list that is for the role, as a list of at most one.
RefRuleFor(rules, userRole) ==
    IF \A i \in 1..Len(rules) : rules[i].role # userRole THEN << >>
    ELSE <<rules[CHOOSE i \in 1..Len(rules) :
                    /\ rules[i].role = userRole
                    /\ \A j \in 1..(i - 1) : rules[j].role # userRole]>>

\* The reference says what a tiered rule yields only when it has a tier.
RefDefined(rule) ==
    rule.markupType = "tiered"
        => (rule.tierConfig # Undefined /\ rule.tierConfig[1] # << >>)

TiersShareQuantity(tiers) ==
    \E i \in 1..Len(tiers), j \in 1..Len(tiers) :
        /\ i < j
        /\ (tiers[i].maxQuantity = Undefined
                \/ tiers[j].minQuantity <= tiers[i].maxQuantity[1])
        /\ (tiers[j].maxQuantity = Undefined
                \/ tiers[i].minQuantity <= tiers[j].maxQuantity[1])

\* C20: validateRule returns valid = false for a tiered rule two of whose
\* tiers share a quantity, for a negative markupValue, for a percentage
\* markupValue above 10000 and for minProfit > maxProfit.
InvalidRuleRejected ==
    ( /\ price.fn = "validateRule"
      /\ \/ /\ price.rule.markupType = "tiered"
            /\ price.rule.tierConfig # Undefined
            /\ TiersShareQuantity(price.rule.tierConfig[1])
         \/ price.rule.markupValue < 0
         \/ price.rule.markupType = "percentage" /\ price.rule.markupValue > 10000
         \/ /\ price.rule.minProfit # Undefined
            /\ price.rule.maxProfit # Undefined
            /\ price.rule.minProfit[1] > price.rule.maxProfit[1] )
    => price.out.valid = FALSE


(* ---------------------------------------------------------------------- *)
(* PricingEngine.calculateProfitDistribution                               *)
(* ---------------------------------------------------------------------- *)

\* The longest role hierarchy.
MaxHierarchy == 2

\* The members of a role hierarchy, top first.
UserIds == {"u1", "u2"}
Members == [role : PricingRoles, userId : UserIds]
Hierarchies == SeqsUpTo(Members, MaxHierarchy)

\* The rules of a role the distribution is computed from: fixed 200 or
\* 1000, 2% or 10%, or a tiered rule, each with and without limits.
DistRules(role) ==
    { PricingRule(role, type, v, lo, hi, Undefined) :
        type \in {"fixed", "percentage"}, v \in {200, 1000},
        lo \in Profits, hi \in Profits }
        \cup { PricingRule(role, "tiered", 0, lo, hi, Undefined) :
                 lo \in Profits, hi \in Profits }

\* The rule lists: none, one rule, or one rule for each role.
DistRuleLists ==
    {<< >>}
        \cup {<<r>> : r \in DistRules("reseller") \cup DistRules("customer")}
        \cup {<<a, b>> : a \in DistRules("reseller"), b \in DistRules("customer")}

\* baseCost and finalPrice: no margin, a margin of 300, of 1500, a loss.
DistPrices ==
    { [baseCost |-> 10000, finalPrice |-> f] : f \in {9900, 10000, 10300, 11500} }

MathMin(a, b) == IF a <= b THEN a ELSE b

\* Mutant of roleProfit: the floor minProfit is not cut to what remains.
roleProfitFloorUncut(baseCost, rule, remainingProfit) ==
    LET raw == CASE rule.markupType = "fixed" ->
                        MathMin(rule.markupValue, remainingProfit)
                 [] rule.markupType = "percentage" ->
                        MathMin(MarkupOf(baseCost, rule.markupValue), remainingProfit)
                 [] OTHER -> 0
        raised == IF IsSet(rule.minProfit) /\ raw < Val(rule.minProfit)
                  THEN Val(rule.minProfit) ELSE raw
    IN  IF IsSet(rule.maxProfit) /\ raised > Val(rule.maxProfit)
        THEN Val(rule.maxProfit) ELSE raised

\* The body of the loop for a member that has a rule while profit remains:
\* the switch on markupType (a tiered rule leaves roleProfit 0), then the
\* profit limits.
roleProfit(baseCost, rule, remainingProfit) ==
    LET raw == CASE rule.markupType = "fixed" ->
                        MathMin(rule.markupValue, remainingProfit)
                 [] rule.markupType = "percentage" ->
                        MathMin(MarkupOf(baseCost, rule.markupValue), remainingProfit)
                 [] OTHER -> 0
        raised == IF IsSet(rule.minProfit) /\ raw < Val(rule.minProfit)
                  THEN MathMin(Val(rule.minProfit), remainingProfit) ELSE raw
    IN  IF IsSet(rule.maxProfit) /\ raised > Val(rule.maxProfit)
        THEN Val(rule.maxProfit) ELSE raised

\* The loop from member i down to the first one: the entries in the order
\* they are pushed.
RECURSIVE distribute(_, _, _, _, _)
distribute(baseCost, roleHierarchy, rules, i, remainingProfit) ==
    IF i = 0 THEN << >>
    ELSE LET member == roleHierarchy[i]
             found == findRule(rules, member.role)
             profit == IF found = << >> \/ remainingProfit <= 0 THEN 0
                       ELSE roleProfit(baseCost, found[1], remainingProfit)
         IN  <<[userId |-> member.userId, role |-> member.role, profit |-> profit]>>
                \o distribute(baseCost, roleHierarchy, rules, i - 1,
                              remainingProfit - profit)

\* Array.prototype.reverse
reverse(s) == [i \in 1..Len(s) |-> s[Len(s) + 1 - i]]

calculateProfitDistribution(baseCost, finalPrice, roleHierarchy, rules) ==
    reverse(distribute(baseCost, roleHierarchy, rules, Len(roleHierarchy),
                       finalPrice - baseCost))

\* A call of calculateProfitDistribution that has not returned yet.
InitDist ==
    /\ WalletIdle /\ CallIdle /\ RaceIdle /\ OsmIdle
    /\ ful = [fn |-> "none"]
    /\ sync = [pc |-> "idle"]
    /\ RegistryIdle /\ OrdIdle
    /\ \E p \in DistPrices, roleHierarchy \in Hierarchies, rules \in DistRuleLists :
          price = [fn |-> "called", baseCost |-> p.baseCost,
                   finalPrice |-> p.finalPrice, roleHierarchy |-> roleHierarchy,
                   rules |-> rules, out |-> << >>]

CalculateProfitDistribution ==
    /\ price.fn = "called"
    /\ price' = [price EXCEPT
                    !.fn = "calculateProfitDistribution",
                    !.out = calculateProfitDistribution(price.baseCost, price.finalPrice,
                                                        price.roleHierarchy, price.rules)]
    /\ UNCHANGED <<walletVars, callVars, raceVars, osm, ful, sync, reg, ord>>

NextDist == CalculateProfitDistribution

SpecDist == InitDist /\ [][NextDist]_vars

Distributed == price.fn = "calculateProfitDistribution"

RECURSIVE SumProfit(_)
SumProfit(distribution) ==
    IF distribution = << >> THEN 0
    ELSE distribution[1].profit + SumProfit(Tail(distribution))

\* C21: when finalPrice >= baseCost, the profits of the distribution sum to
\* at most finalPrice - baseCost, and the distribution has one entry per
\* member of the hierarchy, in the hierarchy's order.
DistributionWithinMargin ==
    (Distributed /\ price.finalPrice >= price.baseCost) =>
        /\ SumProfit(price.out) <= price.finalPrice - price.baseCost
        /\ Len(price.out) = Len(price.roleHierarchy)
        /\ \A i \in 1..Len(price.out) :
              /\ price.out[i].userId = price.roleHierarchy[i].userId
              /\ price.out[i].role = price.roleHierarchy[i].role

\* C21 witness: two different members share a margin of 300; the lower one
\* takes 200, and the upper one's floor of 500 is cut to the 100 that remain.
DistributionWithinMarginWitness ==
    /\ Distributed
    /\ price.finalPrice - price.baseCost = 300
    /\ Len(price.roleHierarchy) = 2
    /\ price.roleHierarchy[1] # price.roleHierarchy[2]
    /\ price.out[2].profit = 200
    /\ price.out[1].profit = 100
    /\ \E r \in {findRule(price.rules, price.roleHierarchy[1].role)} :
          r # << >> /\ r[1].minProfit = Some(500)

(* ---------------------------------------------------------------------- *)
(* SchemaValidator and ServiceManager                                      *)
(* ---------------------------------------------------------------------- *)

\* A JavaScript value of an order input: undefined, null, a string (its
\* characters) or a number.
JsUndefined == [t |-> "undefined", s |-> << >>, n |-> 0]
JsNull == [t |-> "null", s |-> << >>, n |-> 0]
JsString(s) == [t |-> "string", s |-> s, n |-> 0]
JsNumber(n) == [t |-> "number", s |-> << >>, n |-> n]

DigitChars == <<"0", "1", "2", "3", "4", "5", "6", "7", "8", "9">>
IsDigit(c) == \E d \in 1..10 : DigitChars[d] = c
DigitValue(c) == (CHOOSE d \in 1..10 : DigitChars[d] = c) - 1

\* String(n) of a number that is a non-negative integer.
RECURSIVE NumberToString(_)
NumberToString(n) ==
    IF n < 10 THEN <<DigitChars[n + 1]>>
    ELSE Append(NumberToString(n \div 10), DigitChars[(n % 10) + 1])

\* String(value) of a string or a number.
String(value) == IF value.t = "string" THEN value.s ELSE NumberToString(value.n)

\* Number(value) of a number or of a non-empty string: the number a string
\* of decimal digits denotes, Undefined (NaN) for a string with another
\* character in it.
RECURSIVE ParseDigits(_)
ParseDigits(s) ==
    IF s = << >> THEN 0
    ELSE ParseDigits(SubSeq(s, 1, Len(s) - 1)) * 10 + DigitValue(s[Len(s)])

Number(value) ==
    IF value.t = "number" THEN Some(value.n)
    ELSE IF \A i \in 1..Len(value.s) : IsDigit(value.s[i]) THEN Some(ParseDigits(value.s))
    ELSE Undefined

\* value === undefined || value === null || value === ''
IsEmpty(value) ==
    value.t \in {"undefined", "null"} \/ (value.t = "string" /\ value.s = << >>)

\* new RegExp(pattern).test(value) for the patterns ^[0-9]{n}$.
RegexTest(pattern, s) == Len(s) = pattern /\ \A i \in 1..Len(s) : IsDigit(s[i])

\* /^[^\s@]+@[^\s@]+\.[^\s@]+$/.test(email)
isValidEmail(s) ==
    \E p \in 1..Len(s), q \in 1..Len(s) :
        /\ s[p] = "@" /\ s[q] = "."
        /\ 1 < p /\ p + 1 < q /\ q < Len(s)
        /\ \A i \in 1..Len(s) : i # p => s[i] \notin {"@", " "}

\* A FieldSchema; of field.validation the rules pattern (the n of
\* ^[0-9]{n}$), minLength, maxLength, min, max and options, each Undefined
\* when it is not given.
FieldSchema(name, type, label, required, pattern, minLength, maxLength, min, max, options) ==
    [name |-> name, type |-> type, label |-> label, required |-> required,
     pattern |-> pattern, minLength |-> minLength, maxLength |-> maxLength,
     min |-> min, max |-> max, options |-> options]

\* The error messages of one field, each the field's label and the text
\* that follows it.
FieldError(field, text) == [label |-> field.label, text |-> text]

\* "Type validation": the message it pushes, if any.
typeErrors(field, value) ==
    CASE field.type = "number" ->
            IF value.t # "number" /\ ~IsSet(Number(value))
            THEN <<FieldError(field, "must be a number")>> ELSE << >>
      [] field.type = "email" ->
            IF value.t # "string" \/ ~isValidEmail(value.s)
            THEN <<FieldError(field, "must be a valid email")>> ELSE << >>
      [] OTHER -> << >>

\* "Type validation": what it stores in data[field.name].
typedData(field, value) ==
    CASE field.type = "number" -> JsNumber(Val(Number(value)))
      [] field.type = "checkbox" ->
            [t |-> "boolean", s |-> << >>,
             n |-> IF (value.t = "number" /\ value.n = 0) THEN 0 ELSE 1]
      [] OTHER -> value

\* "Additional validation rules", in the order of the code: pattern and
\* lengths only when typeof value === 'string', min and max on
\* Number(value) (a comparison with NaN is false), options on String(value).
ruleErrors(field, value) ==
    (IF IsSet(field.pattern) /\ value.t = "string"
           /\ ~RegexTest(Val(field.pattern), value.s)
     THEN <<FieldError(field, "format is invalid")>> ELSE << >>)
    \o (IF IsSet(field.minLength) /\ Val(field.minLength) # 0 /\ value.t = "string"
           /\ Len(value.s) < Val(field.minLength)
        THEN <<FieldError(field, "must be at least minLength characters")>> ELSE << >>)
    \o (IF IsSet(field.maxLength) /\ Val(field.maxLength) # 0 /\ value.t = "string"
           /\ Len(value.s) > Val(field.maxLength)
        THEN <<FieldError(field, "must be at most maxLength characters")>> ELSE << >>)
    \o (IF IsSet(field.min) /\ IsSet(Number(value)) /\ Val(Number(value)) < Val(field.min)
        THEN <<FieldError(field, "must be at least min")>> ELSE << >>)
    \o (IF IsSet(field.max) /\ IsSet(Number(value)) /\ Val(Number(value)) > Val(field.max)
        THEN <<FieldError(field, "must be at most max")>> ELSE << >>)
    \o (IF IsSet(field.options)
           /\ ~\E k \in 1..Len(Val(field.options)) : Val(field.options)[k] = String(value)
        THEN <<FieldError(field, "must be one of the options")>> ELSE << >>)

\* One pass of the loop over schema.fields: fieldErrors of the field, and
\* whether data[field.name] was assigned.
fieldErrors(field, value) ==
    IF field.required /\ IsEmpty(value) THEN <<FieldError(field, "is required")>>
    ELSE IF IsEmpty(value) THEN << >>
    ELSE IF typeErrors(field, value) # << >> THEN typeErrors(field, value)
    ELSE ruleErrors(field, value)

fieldHasData(field, value) == ~IsEmpty(value) /\ typeErrors(field, value) = << >>

\* input[field.name]
InputValue(input, name) == IF name \in DOMAIN input THEN input[name] ELSE JsUndefined

\* The loop of validate over the fields up to the i-th: errors and data,
\* each a record keyed by field name.
RECURSIVE validateLoop(_, _, _)
validateLoop(fields, input, i) ==
    IF i = 0 THEN [errors |-> << >>, data |-> << >>]
    ELSE LET acc == validateLoop(fields, input, i - 1)
             field == fields[i]
             value == InputValue(input, field.name)
             errs == fieldErrors(field, value)
         IN  [errors |-> IF errs # << >> THEN (field.name :> errs) @@ acc.errors
                         ELSE acc.errors,
              data |-> IF fieldHasData(field, value)
                       THEN (field.name :> typedData(field, value)) @@ acc.data
                       ELSE acc.data]

\* A ValidationResult; errors and data are Undefined when not returned.
ValidationResult(valid, errors, data) == [valid |-> valid, errors |-> errors, data |-> data]

\* SchemaValidator.validate
validate(schema, input) ==
    LET r == validateLoop(schema.fields, input, Len(schema.fields))
        keys == DOMAIN r.errors
    IN  ValidationResult(keys = {},
                         IF keys # {} THEN Some(r.errors) ELSE Undefined,
                         IF keys = {} THEN Some(r.data) ELSE Undefined)

\* Sample texts: five digits, fifteen digits, fifteen characters with a
\* letter among them, an e-mail address, a word that is not one, and the
\* output formats of the example file schema.
Text5 == <<"1", "2", "3", "4", "5">>
Text15 == <<"1", "2", "3", "4", "5", "6", "7", "8", "9", "0", "1", "2", "3", "4", "5">>
Text15a == <<"1", "2", "3", "4", "5", "6", "7", "a", "9", "0", "1", "2", "3", "4", "5">>
TextEmail == <<"a", "@", "b", ".", "c">>
TextWord == <<"a", "b">>
TextPdf == <<"p", "d", "f">>
TextTxt == <<"t", "x", "t">>

\* The values an input may hold for a field.
InputValues ==
    {JsUndefined, JsNull, JsNumber(0), JsNumber(7), JsNumber(12345)}
        \cup {JsString(s) : s \in {<< >>, Text5, Text15, Text15a, TextEmail, TextWord, TextPdf}}

\* The fields whose value validate converts with Number(value); the model's
\* integers do not hold the number of a text of fifteen digits.
ReadsNumber(field) == field.type = "number" \/ IsSet(field.min) \/ IsSet(field.max)
ValuesFor(field) ==
    IF ReadsNumber(field) THEN InputValues \ {JsString(Text15)} ELSE InputValues

\* The imei field of exampleIMEISchema and its variants: the pattern
\* ^[0-9]{15}$ or ^[0-9]{5}$ or none, with and without the length rules.
ImeiFields ==
    { FieldSchema("imei", "text", "IMEI Number", required, pattern, len, len,
                  Undefined, Undefined, Undefined) :
        required \in BOOLEAN, pattern \in {Undefined, Some(5), Some(15)},
        len \in {Undefined, Some(15)} }

\* Fields of the other types: a number with a range, an e-mail address, a
\* checkbox, the select of exampleFileSchema, an optional text.
OtherFields ==
    { FieldSchema("quantity", "number", "Quantity", required, Undefined, Undefined,
                  Undefined, Some(1), Some(10), Undefined) : required \in BOOLEAN }
        \cup { FieldSchema("email", "email", "E-mail", required, Undefined, Undefined,
                           Undefined, Undefined, Undefined, Undefined) : required \in BOOLEAN }
        \cup { FieldSchema("agree", "checkbox", "Agree", FALSE, Undefined, Undefined,
                           Undefined, Undefined, Undefined, Undefined),
               FieldSchema("format", "select", "Output Format", TRUE, Undefined, Undefined,
                           Undefined, Undefined, Undefined, Some(<<TextPdf, TextTxt>>)),
               FieldSchema("model", "text", "Device Model", FALSE, Undefined, Undefined,
                           Undefined, Undefined, Undefined, Undefined) }

\* The schemas validate is called with: one field, or an imei field
\* followed by a field of another type.
ValidatedSchemas ==
    { [fields |-> <<f>>] : f \in ImeiFields \cup OtherFields }
        \cup { [fields |-> <<f, g>>] : f \in ImeiFields, g \in OtherFields }

\* The inputs for a schema: a value for each of its fields.
RECURSIVE InputsUpTo(_, _)
InputsUpTo(fields, i) ==
    IF i = 0 THEN {<< >>}
    ELSE { (fields[i].name :> v) @@ input :
             v \in ValuesFor(fields[i]), input \in InputsUpTo(fields, i - 1) }
Inputs(schema) == InputsUpTo(schema.fields, Len(schema.fields))

\* A call of SchemaValidator.validate that has not returned yet.
InitValidate ==
    /\ WalletIdle /\ CallIdle /\ RaceIdle /\ OsmIdle
    /\ ful = [fn |-> "none"]
    /\ sync = [pc |-> "idle"]
    /\ price = [fn |-> "none"]
    /\ RegistryIdle
    /\ \E schema \in ValidatedSchemas :
          \E input \in Inputs(schema) :
              ord = [fn |-> "called", schema |-> schema, input |-> input,
                     out |-> ValidationResult(FALSE, Undefined, Undefined)]

Validate ==
    /\ ord.fn = "called"
    /\ ord' = [ord EXCEPT !.fn = "validate", !.out = validate(ord.schema, ord.input)]
    /\ UNCHANGED <<walletVars, callVars, raceVars, osm, ful, sync, price, reg>>

NextValidate == Validate

SpecValidate == InitValidate /\ [][NextValidate]_vars

Validated == ord.fn = "validate"

\* The required fields with a pattern rule for which the input holds a value
\* whose textual form does not match the pattern.
PatternMismatches ==
    { i \in 1..Len(ord.schema.fields) :
        LET field == ord.schema.fields[i]
            value == InputValue(ord.input, field.name)
        IN  /\ field.required /\ IsSet(field.pattern)
            /\ ~IsEmpty(value)
            /\ ~RegexTest(Val(field.pattern), String(value)) }

\* C25: a value supplied for a required field with a pattern rule, as a
\* string or as a number, whose textual form does not match the pattern
\* makes validate return valid=false with an error keyed by the field name.
PatternEnforced ==
    Validated =>
        \A i \in PatternMismatches :
            /\ ~ord.out.valid
            /\ IsSet(ord.out.errors)
            /\ ord.schema.fields[i].name \in DOMAIN Val(ord.out.errors)

(* ---------------------------------------------------------------------- *)
(* OrderManager.placeOrder and BulkOrderManager.placeBulkOrder             *)
(* ---------------------------------------------------------------------- *)

\* The longest list of bulk items.
MaxItems == 2

\* exampleIMEISchema
exampleIMEISchema ==
    [fields |-> << FieldSchema("imei", "text", "IMEI Number", TRUE, Some(15), Some(15),
                               Some(15), Undefined, Undefined, Undefined),
                   FieldSchema("model", "text", "Device Model", FALSE, Undefined, Undefined,
                               Undefined, Undefined, Undefined, Undefined) >>]

\* service.allowed_roles: null, empty, or a list of roles.
AllowedRoles ==
    {Undefined, Some(<< >>), Some(<<"reseller">>), Some(<<"admin", "reseller">>)}

\* The services table: input_schema, base_cost, allowed_roles,
\* supports_bulk, requires_approval.
Services ==
    [inputSchema : {exampleIMEISchema}, baseCost : {10000},
     allowedRoles : AllowedRoles, supportsBulk : BOOLEAN, requiresApproval : BOOLEAN]

\* Order inputs for exampleIMEISchema: no imei, an imei of five digits as a
\* string and as a number, an imei of fifteen digits, with a model or not.
OrderInputs ==
    { ("imei" :> v) : v \in {JsUndefined, JsString(Text5), JsNumber(12345), JsString(Text15)} }
        \cup { ("imei" :> JsString(Text15)) @@ ("model" :> JsString(TextWord)) }

\* The pricing rules of the tenant: none, a fixed markup for resellers, a
\* tiered rule without tiers, on which calculatePrice throws.
OrderRuleLists ==
    { << >>,
      <<PricingRule("reseller", "fixed", 200, Undefined, Undefined, Undefined)>>,
      <<PricingRule("reseller", "tiered", 0, Undefined, Undefined, Some(<< >>))>> }

\* ServiceManager.canAccessService
canAccessService(service, userRole) ==
    IF ~IsSet(service.allowedRoles) \/ Len(Val(service.allowedRoles)) = 0 THEN TRUE
    ELSE \E k \in 1..Len(Val(service.allowedRoles)) : Val(service.allowedRoles)[k] = userRole

\* ServiceManager.validateOrderInput
validateOrderInput(service, input) == validate(service.inputSchema, input)

\* An OrderPlacementResult; threw says the call ended with the TypeError of
\* calculatePrice instead of returning.
OrderPlacementResult(success, order, error) ==
    [threw |-> FALSE, success |-> success, order |-> order, error |-> error]
PlacementThrown ==
    [threw |-> TRUE, success |-> FALSE, order |-> Undefined, error |-> Undefined]
PlacementError(code, details) ==
    OrderPlacementResult(FALSE, Undefined,
                         Some([code |-> code, validationErrors |-> details]))

\* The unsaved order object.
NewOrder(service, inputData, quantity, pricing) ==
    [status |-> IF service.requiresApproval THEN "pending" ELSE "payment_confirmed",
     inputData |-> inputData,
     baseCost |-> service.baseCost * quantity,
     markup |-> pricing.markup,
     totalAmount |-> pricing.totalAmount,
     paidAmount |-> 0]

\* OrderManager.placeOrder
managerPlaceOrder(input, service, pricingRules) ==
    LET validation == validateOrderInput(service, input.inputData)
        pricing == calculatePrice(service.baseCost, pricingRules, input.userRole, 1)
    IN  IF ~validation.valid
        THEN PlacementError("VALIDATION_ERROR", validation.errors)
        ELSE IF ~canAccessService(service, input.userRole)
        THEN PlacementError("ACCESS_DENIED", Undefined)
        ELSE IF pricing.threw THEN PlacementThrown
        ELSE OrderPlacementResult(TRUE,
                                  Some(NewOrder(service, Val(validation.data), 1, pricing)),
                                  Undefined)

\* Object.values(errors).flat(): the messages of the fields in the order
\* the fields were checked.
RECURSIVE flatErrors(_, _, _)
flatErrors(fields, errors, i) ==
    IF i = 0 THEN << >>
    ELSE flatErrors(fields, errors, i - 1)
            \o (IF fields[i].name \in DOMAIN errors THEN errors[fields[i].name] ELSE << >>)

\* "Validate all items": validationErrors after the first n items.
RECURSIVE bulkValidationErrors(_, _, _)
bulkValidationErrors(service, items, n) ==
    IF n = 0 THEN << >>
    ELSE LET before == bulkValidationErrors(service, items, n - 1)
             validation == validateOrderInput(service, items[n])
         IN  IF ~validation.valid /\ IsSet(validation.errors)
             THEN Append(before, [index |-> n - 1, errors |-> Val(validation.errors)])
             ELSE before

\* The key `item_${index}` of the error report.
ItemKey(index) == <<"item", index>>

\* validationErrors.reduce(...): the report keyed by item.
RECURSIVE bulkReport(_, _, _)
bulkReport(service, failed, n) ==
    IF n = 0 THEN << >>
    ELSE (ItemKey(failed[n].index)
             :> flatErrors(service.inputSchema.fields, failed[n].errors,
                           Len(service.inputSchema.fields)))
            @@ bulkReport(service, failed, n - 1)

\* Mutant of placeBulkOrder: only the first failing item is reported.
placeBulkOrderFirstError(input, service, pricingRules, items) ==
    LET failed == bulkValidationErrors(service, items, Len(items))
        pricing == calculatePrice(service.baseCost, pricingRules, input.userRole, Len(items))
    IN  IF ~service.supportsBulk
        THEN PlacementError("BULK_NOT_SUPPORTED", Undefined)
        ELSE IF Len(failed) > 0
        THEN PlacementError("BULK_VALIDATION_ERROR",
                            Some(bulkReport(service, failed, 1)))
        ELSE IF pricing.threw THEN PlacementThrown
        ELSE OrderPlacementResult(TRUE,
                                  Some(NewOrder(service, [bulkCount |-> Len(items)],
                                                Len(items), pricing)),
                                  Undefined)

\* BulkOrderManager.placeBulkOrder
placeBulkOrder(input, service, pricingRules, items) ==
    LET failed == bulkValidationErrors(service, items, Len(items))
        pricing == calculatePrice(service.baseCost, pricingRules, input.userRole, Len(items))
    IN  IF ~service.supportsBulk
        THEN PlacementError("BULK_NOT_SUPPORTED", Undefined)
        ELSE IF Len(failed) > 0
        THEN PlacementError("BULK_VALIDATION_ERROR",
                            Some(bulkReport(service, failed, Len(failed))))
        ELSE IF pricing.threw THEN PlacementThrown
        ELSE OrderPlacementResult(TRUE,
                                  Some(NewOrder(service, [bulkCount |-> Len(items)],
                                                Len(items), pricing)),
                                  Undefined)

\* An order placement that has not been made yet: the service, the caller
\* and the input of a single order or the items of a bulk order.
InitOrder ==
    /\ WalletIdle /\ CallIdle /\ RaceIdle /\ OsmIdle
    /\ ful = [fn |-> "none"]
    /\ sync = [pc |-> "idle"]
    /\ price = [fn |-> "none"]
    /\ RegistryIdle
    /\ \E service \in Services, userRole \in PricingRoles, pricingRules \in OrderRuleLists,
          inputData \in OrderInputs, items \in SeqsUpTo(OrderInputs, MaxItems) :
          ord = [fn |-> "called", service |-> service, userRole |-> userRole,
                 pricingRules |-> pricingRules, inputData |-> inputData,
                 items |-> items, out |-> PlacementThrown]

PlaceOrder ==
    /\ ord.fn = "called"
    /\ ord' = [ord EXCEPT
                  !.fn = "placeOrder",
                  !.out = managerPlaceOrder([inputData |-> ord.inputData,
                                             userRole |-> ord.userRole],
                                            ord.service, ord.pricingRules)]
    /\ UNCHANGED <<walletVars, callVars, raceVars, osm, ful, sync, price, reg>>

PlaceBulkOrder ==
    /\ ord.fn = "called"
    /\ ord' = [ord EXCEPT
                  !.fn = "placeBulkOrder",
                  !.out = placeBulkOrder([userRole |-> ord.userRole], ord.service,
                                         ord.pricingRules, ord.items)]
    /\ UNCHANGED <<walletVars, callVars, raceVars, osm, ful, sync, price, reg>>

NextOrder == PlaceOrder \/ PlaceBulkOrder

SpecOrder == InitOrder /\ [][NextOrder]_vars

BulkPlaced == ord.fn = "placeBulkOrder"

\* The indexes of the items that fail schema validation.
FailingItems ==
    { i \in 0..(Len(ord.items) - 1) :
        ~validateOrderInput(ord.service, ord.items[i + 1]).valid }

ReportedItems ==
    IF IsSet(ord.out.error) /\ IsSet(Val(ord.out.error).validationErrors)
    THEN DOMAIN Val(Val(ord.out.error).validationErrors)
    ELSE {}

\* C22: placeBulkOrder answers BULK_NOT_SUPPORTED, whatever the items are,
\* when the service does not flag supportsBulk; otherwise the items of its
\* error report are exactly the items that fail schema validation, and it
\* returns an order only when no item fails.
BulkReportsAllFailingItems ==
    BulkPlaced =>
        IF ~ord.service.supportsBulk
        THEN /\ ~ord.out.threw /\ ~ord.out.success /\ ~IsSet(ord.out.order)
             /\ Val(ord.out.error).code = "BULK_NOT_SUPPORTED"
             /\ ReportedItems = {}
        ELSE /\ ReportedItems = {ItemKey(i) : i \in FailingItems}
             /\ FailingItems # {} =>
                   /\ ~ord.out.threw /\ ~ord.out.success /\ ~IsSet(ord.out.order)
                   /\ Val(ord.out.error).code = "BULK_VALIDATION_ERROR"
             /\ IsSet(ord.out.order) => FailingItems = {}

\* C22 witness: both items of a bulk order fail and both are reported.
BulkReportsAllFailingItemsWitness ==
    /\ BulkPlaced
    /\ ord.service.supportsBulk
    /\ Len(ord.items) = 2
    /\ FailingItems = {0, 1}
    /\ ReportedItems = {ItemKey(0), ItemKey(1)}

OrderPlaced == ord.fn \in {"placeOrder", "placeBulkOrder"}

\* The caller's role is not among the roles the service is restricted to.
RoleNotAllowed ==
    /\ IsSet(ord.service.allowedRoles)
    /\ Val(ord.service.allowedRoles) # << >>
    /\ \A k \in 1..Len(Val(ord.service.allowedRoles)) :
          Val(ord.service.allowedRoles)[k] # ord.userRole

\* C23: neither placeOrder nor placeBulkOrder returns an order to a caller
\* whose role is not among the service's allowed roles.
NoOrderForDeniedRole ==
    (OrderPlaced /\ RoleNotAllowed) => ~IsSet(ord.out.order)

(* ---------------------------------------------------------------------- *)
(* ProviderRegistry                                                        *)
(* ---------------------------------------------------------------------- *)

\* Mutant of register: a type that is registered keeps its class.
registerKeepsFirst(providers, type, providerClass) ==
    IF providers[type] # None THEN providers
    ELSE [providers EXCEPT ![type] = providerClass]

\* ProviderRegistry.register: this.providers.set(type, providerClass)
register(providers, type, providerClass) ==
    [providers EXCEPT ![type] = providerClass]

\* What create gives: a new instance of a class, or the Error it throws.
ProviderInstance(providerClass, config) ==
    [threw |-> FALSE, class |-> providerClass, config |-> config]
NotRegistered(config) ==
    [threw |-> TRUE, class |-> None, config |-> config]

\* ProviderRegistry.create
create(providers, config) ==
    LET ProviderClass == providers[config.type]
    IN  IF ProviderClass = None THEN NotRegistered(config)
        ELSE ProviderInstance(ProviderClass, config)

\* A register call; `latest` remembers the class each type was last
\* registered with, by the static block or by a call.
Register ==
    /\ \E type \in ProviderType, providerClass \in ProviderClasses :
          reg' = [providers |-> register(reg.providers, type, providerClass),
                  latest |-> [reg.latest EXCEPT ![type] = providerClass],
                  fn |-> "register", type |-> type,
                  out |-> ProviderInstance(providerClass, [type |-> type])]
    /\ UNCHANGED <<walletVars, callVars, raceVars, osm, ful, sync, price, ord>>

\* A create call.
Create ==
    /\ \E type \in ProviderType :
          reg' = [providers |-> reg.providers,
                  latest |-> reg.latest,
                  fn |-> "create", type |-> type,
                  out |-> create(reg.providers, [type |-> type])]
    /\ UNCHANGED <<walletVars, callVars, raceVars, osm, ful, sync, price, ord>>

NextRegistry == Register \/ Create

SpecRegistry == Init /\ [][NextRegistry]_vars

\* C24: create returns an instance of the class most recently registered
\* for config.type when the type has been registered, and throws
\* otherwise; before any call exactly manual and api are registered.
CreateGivesLatestClass ==
    /\ reg.fn = "none" =>
          {t \in ProviderType : reg.providers[t] # None} = {"manual", "api"}
    /\ reg.fn = "create" =>
          IF reg.latest[reg.type] # None
          THEN /\ ~reg.out.threw
               /\ reg.out.class = reg.latest[reg.type]
               /\ reg.out.config.type = reg.type
          ELSE reg.out.threw /\ reg.out.class = None

\* C24 witness: api was registered again with another class, and create
\* gives an instance of that class.
CreateGivesLatestClassWitness ==
    /\ reg.fn = "create"
    /\ reg.type = "api"
    /\ reg.latest["api"] = "CustomProvider"
    /\ ~reg.out.threw
    /\ reg.out.class = "CustomProvider"

(* ---------------------------------------------------------------------- *)
(* The ledger: parents of unlock and refund entries, effect of an entry    *)
(* ---------------------------------------------------------------------- *)

\* The entries of the ledger of one type that name the entry id as parent.
ChildrenOf(id, type) ==
    { i \in 1..Len(ledger) :
        ledger[i].type = type /\ ledger[i].parentTransactionId = id }

\* C26: the parent of every unlock entry of the ledger is the id of a
\* completed lock entry of the same ledger.
UnlockParentIsLock ==
    \A i \in 1..Len(ledger) :
        ledger[i].type = "unlock" =>
            /\ ledger[i].parentTransactionId \in 1..Len(ledger)
            /\ ledger[ledger[i].parentTransactionId].type = "lock"
            /\ ledger[ledger[i].parentTransactionId].status = "completed"

\* C27: the unlock entries that name a lock as parent never add up to more
\* than the amount of that lock.
LockSettledAtMostOnce ==
    \A id \in 1..Len(ledger) :
        ledger[id].type = "lock" =>
            SumAmounts(ledger, ChildrenOf(id, "unlock")) <= ledger[id].amount

\* C28: the refund entries that name an entry as parent never add up to
\* more than the amount of that entry.
RefundsWithinOriginal ==
    \A id \in 1..Len(ledger) :
        SumAmounts(ledger, ChildrenOf(id, "refund")) <= ledger[id].amount

\* The ledger got one more entry in this step.
Appended ==
    /\ Len(ledger') = Len(ledger) + 1
    /\ SubSeq(ledger', 1, Len(ledger)) = ledger

\* C29: an appended lock or unlock entry leaves total unchanged and, when
\* completed, moves its amount between available and locked; total changes
\* only with a completed credit or refund (plus the amount) or a completed
\* debit (minus the amount).
EntryEffectOnTotal ==
    [][ Appended =>
          LET tx == ledger'[Len(ledger')]
              old == calculateBalance(ledger)
              new == calculateBalance(ledger')
              done == tx.status = "completed"
          IN  /\ tx.type \in {"lock", "unlock"} => new.total = old.total
              /\ (done /\ tx.type = "lock") =>
                    /\ new.available = old.available - tx.amount
                    /\ new.locked = old.locked + tx.amount
              /\ (done /\ tx.type = "unlock") =>
                    /\ new.available = old.available + tx.amount
                    /\ new.locked = old.locked - tx.amount
              /\ (done /\ tx.type \in {"credit", "refund"}) =>
                    new.total = old.total + tx.amount /\ new.locked = old.locked
              /\ (done /\ tx.type = "debit") =>
                    new.total = old.total - tx.amount /\ new.locked = old.locked
              /\ new.total # old.total =>
                    done /\ tx.type \in {"credit", "refund", "debit"}
      ]_vars

\* C29 witness: a completed lock was appended to a completed credit; the
\* total is the credit, the lock's amount is locked.
EntryEffectOnTotalWitness ==
    /\ Len(ledger) = 2
    /\ ledger[1].type = "credit" /\ ledger[1].status = "completed"
    /\ ledger[2].type = "lock" /\ ledger[2].status = "completed"
    /\ balance.total = ledger[1].amount
    /\ balance.locked = ledger[2].amount
    /\ balance.available = ledger[1].amount - ledger[2].amount

\* The rule as validateRule leaves it: its tiers are the list the sort
\* was applied to.
RuleAfterValidation == [price.rule EXCEPT !.tierConfig = price.out.tierConfig]

\* C30: validateRule leaves the rule as it was, the order of its tiers
\* included, and calculatePrice gives the same result with the rule as it
\* is after the validation as with the rule as it was before.
ValidationLeavesRuleUnchanged ==
    price.fn = "validateRule" =>
        /\ RuleAfterValidation = price.rule
        /\ \A baseCost \in BaseCosts, quantity \in Quantities :
              calculatePrice(baseCost, <<RuleAfterValidation>>, price.rule.role, quantity)
                 = calculatePrice(baseCost, <<price.rule>>, price.rule.role, quantity)

(* ---------------------------------------------------------------------- *)
(* Failures of fulfilment, totals of placed orders                         *)
(* ---------------------------------------------------------------------- *)

Fulfilled == ful.fn = "fulfillOrder"

\* C31: fulfillOrder returns a result in every case.  When the provider
\* type is not registered, the provider refuses the input, the endpoint
\* cannot be reached or answers with an error, the result is success=false
\* with status failed and an error code, and the code of a failure returned
\* by the provider's placeOrder is the code of the result.
FulfilFailureIsStructured ==
    Fulfilled =>
        LET out == ful.out
            failure ==
                \/ createThrows(ful.provider)
                \/ ~validateInput(ful.provider).valid
                \/ ~placeOrder(ful.provider, ful.reply).success
        IN  /\ out.success \in BOOLEAN
            /\ out.success = ~failure
            /\ out.success => out.status \in OrderStatus /\ out.code = None
            /\ ~out.success =>
                  /\ out.status = "failed"
                  /\ out.code \in {"FULFILLMENT_ERROR", "PROVIDER_VALIDATION_ERROR",
                                   "NETWORK_ERROR", "API_ERROR"}
            /\ createThrows(ful.provider) => out.code = "FULFILLMENT_ERROR"
            /\ (~createThrows(ful.provider) /\ validateInput(ful.provider).valid
                  /\ ~placeOrder(ful.provider, ful.reply).success) =>
                  out.code = placeOrder(ful.provider, ful.reply).code

\* C31 witness: the endpoint of an Api provider answers with an HTTP error
\* and the result carries the provider's code API_ERROR.
FulfilFailureIsStructuredWitness ==
    /\ Fulfilled
    /\ ful.provider.type = "api" /\ ful.provider.apiUrl
    /\ ful.reply.kind = "http_error"
    /\ ~ful.out.success
    /\ ful.out.status = "failed"
    /\ ful.out.code = "API_ERROR"

\* C32: on every order that placeOrder or placeBulkOrder returns,
\* totalAmount is baseCost plus markup, as recorded on the order.
OrderTotalIsCostPlusMarkup ==
    (OrderPlaced /\ IsSet(ord.out.order)) =>
        Val(ord.out.order).totalAmount
            = Val(ord.out.order).baseCost + Val(ord.out.order).markup

(* ---------------------------------------------------------------------- *)
(* The life of an order: placed, then moved by calls that canTransition    *)
(* allows                                                                  *)
(* ---------------------------------------------------------------------- *)

\* The initial status placeOrder assigns.
initialStatus(requiresApproval) ==
    IF requiresApproval THEN "pending" ELSE "payment_confirmed"

\* An order as placeOrder returned it; visited holds the statuses it has
\* had, by the role of the last change.
InitLifecycle ==
    /\ WalletIdle /\ CallIdle /\ RaceIdle /\ OsmIdle
    /\ ful = [fn |-> "none"]
    /\ sync = [pc |-> "idle"]
    /\ price = [fn |-> "none"]
    /\ RegistryIdle
    /\ \E requiresApproval \in BOOLEAN :
          ord = [fn |-> "placeOrder", requiresApproval |-> requiresApproval,
                 status |-> initialStatus(requiresApproval),
                 visited |-> {initialStatus(requiresApproval)},
                 userRole |-> None]

\* A caller asks for a status change; it is written when canTransition
\* allows it and refused otherwise.
ChangeStatus ==
    /\ \E to \in OrderStatus, userRole \in UserRoles :
          IF canTransition(ord.status, to, userRole).allowed
          THEN ord' = [ord EXCEPT !.fn = "changed", !.status = to,
                                  !.visited = @ \cup {to}, !.userRole = userRole]
          ELSE ord' = [ord EXCEPT !.fn = "refused", !.userRole = userRole]
    /\ UNCHANGED <<walletVars, callVars, raceVars, osm, ful, sync, price, reg>>

NextLifecycle == ChangeStatus

SpecLifecycle == InitLifecycle /\ [][NextLifecycle]_vars

\* C33: an order of a service that requires approval is processing or
\* delivered only after it has been approved.
ApprovedBeforeProcessing ==
    (ord.requiresApproval /\ ord.status \in {"processing", "delivered"}) =>
        "approved" \in ord.visited

(* ---------------------------------------------------------------------- *)
(* OrderItemStateMachine: the items of a bulk order                        *)
(* ---------------------------------------------------------------------- *)

OrderItemStatus == {"pending", "processing", "delivered", "failed"}

itemTransitions ==
    << [from |-> "pending", to |-> "processing"],
       [from |-> "processing", to |-> "delivered"],
       [from |-> "processing", to |-> "failed"],
       [from |-> "failed", to |-> "processing"] >>

\* OrderItemStateMachine.canTransition
itemCanTransition(from, to) ==
    IF from = to THEN TransitionResult(TRUE, << >>)
    ELSE IF SelectSeq(itemTransitions, LAMBDA t : t.from = from /\ t.to = to) = << >>
    THEN TransitionResult(FALSE, <<"Item transition from '", from, "' to '", to, "' is not allowed">>)
    ELSE TransitionResult(TRUE, << >>)

\* OrderItemStateMachine.getAvailableTransitions
itemGetAvailableTransitions(currentStatus) ==
    MapTo(SelectSeq(itemTransitions, LAMBDA t : t.from = currentStatus))

\* OrderItemStateMachine.isTerminalState
itemIsTerminalState(status) == status = "delivered" \/ status = "failed"

\* The items of a bulk order that was just placed: all pending.
InitItems ==
    /\ WalletIdle /\ CallIdle /\ RaceIdle /\ OsmIdle
    /\ ful = [fn |-> "none"]
    /\ sync = [pc |-> "idle"]
    /\ price = [fn |-> "none"]
    /\ RegistryIdle
    /\ \E n \in 1..MaxItems :
          ord = [fn |-> "placeBulkOrder", items |-> [i \in 1..n |-> "pending"],
                 index |-> 0, from |-> None, to |-> None,
                 terminal |-> FALSE, available |-> << >>]

\* A status change is asked for one item: it is written when canTransition
\* allows it; what isTerminalState and getAvailableTransitions said of the
\* item's status before the change is kept.
ChangeItemStatus ==
    /\ \E i \in 1..Len(ord.items), to \in OrderItemStatus :
          ord' = [fn |-> IF itemCanTransition(ord.items[i], to).allowed
                         THEN "changed" ELSE "refused",
                  items |-> IF itemCanTransition(ord.items[i], to).allowed
                            THEN [ord.items EXCEPT ![i] = to] ELSE ord.items,
                  index |-> i, from |-> ord.items[i], to |-> to,
                  terminal |-> itemIsTerminalState(ord.items[i]),
                  available |-> itemGetAvailableTransitions(ord.items[i])]
    /\ UNCHANGED <<walletVars, callVars, raceVars, osm, ful, sync, price, reg>>

NextItems == ChangeItemStatus

SpecItems == InitItems /\ [][NextItems]_vars

\* C40: an item whose status isTerminalState reports as terminal is never
\* moved to another status, and the changes between different statuses
\* that are allowed are pending -> processing, processing -> delivered,
\* processing -> failed and failed -> processing, and no other.
TerminalItemStays ==
    /\ (ord.fn = "changed" /\ ord.from # ord.to) =>
          /\ ~ord.terminal
          /\ <<ord.from, ord.to>> \in {<<"pending", "processing">>,
                                      <<"processing", "delivered">>,
                                      <<"processing", "failed">>,
                                      <<"failed", "processing">>}
    /\ ord.fn = "refused" =>
          <<ord.from, ord.to>> \notin {<<"pending", "processing">>,
                                       <<"processing", "delivered">>,
                                       <<"processing", "failed">>,
                                       <<"failed", "processing">>}
    /\ (ord.fn \in {"changed", "refused"} /\ ord.terminal) => ord.available = << >>

(* ---------------------------------------------------------------------- *)
(* ProviderSync.syncWithRateLimit                                          *)
(* ---------------------------------------------------------------------- *)

\* The longest order list syncWithRateLimit is given, and the largest
\* batchSize; the smallest is -1.
MaxRateOrders == 3
MaxBatchSize == 2

\* The batches the model keeps: one more than a batchSize >= 1 can make of
\* MaxRateOrders orders.  A split loop that goes beyond it has a batchSize
\* <= 0: its index never reaches the end of the list and it adds batches
\* for ever; of its further turns the model keeps only that they are taken.
MaxBatches == MaxRateOrders + 1

\* An order of the list with the answer the endpoint gives when the status
\* of this order is checked; id is the position in the list.
RateOrders == {o \in Orders : o.status \in {"processing", "delivered"}}
RateReplies == {r \in EndpointReplies : r.kind = "http_error" \/ r.status = "done"}
RateProviders ==
    {p \in Providers : /\ p.type \in {"api", "manual"}
                       /\ p.apiUrl
                       /\ p.statusMapping["done"] = "completed"
                       /\ p.statusMapping["completed"] = None
                       /\ p.statusMapping["error"] = None}
RateLists ==
    UNION { [1..n -> [order : RateOrders, reply : RateReplies]] : n \in 0..MaxRateOrders }

\* Array.prototype.slice(start, end) on an array of length len: the
\* positions (from 1) of the elements it copies.  A negative index counts
\* from the end, and both indexes are clamped to 0..len.
sliceIndex(len, k) ==
    IF k < 0 THEN (IF len + k < 0 THEN 0 ELSE len + k)
    ELSE (IF k > len THEN len ELSE k)

slice(len, start, end) ==
    LET from == sliceIndex(len, start)
        final == sliceIndex(len, end)
    IN  [k \in 1..(IF final > from THEN final - from ELSE 0) |-> from + k]

\* SyncResult
SyncResult(syncedCount, failedCount, errors) ==
    [success |-> failedCount = 0, syncedCount |-> syncedCount,
     failedCount |-> failedCount,
     errors |-> IF Len(errors) > 0 THEN Some(errors) ELSE Undefined]

SyncError(orderId, result) == [orderId |-> orderId, error |-> result.error]

\* syncOrders(orders, provider) as a function of the list: the loop of
\* SyncOrdersStep taken to its end, the answer of the endpoint for the
\* order at position k being items[k].reply.
RECURSIVE syncOrdersLoop(_, _, _)
syncOrdersLoop(items, provider, k) ==
    IF k = 0 THEN [syncedCount |-> 0, failedCount |-> 0, errors |-> << >>]
    ELSE LET before == syncOrdersLoop(items, provider, k - 1)
             result == syncOrder(items[k].order, provider, items[k].reply)
         IN  IF result.success
             THEN [before EXCEPT !.syncedCount = @ + 1]
             ELSE [before EXCEPT !.failedCount = @ + 1,
                                 !.errors = Append(@, SyncError(k, result))]

syncOrders(items, provider) ==
    LET r == syncOrdersLoop(items, provider, Len(items))
    IN  SyncResult(r.syncedCount, r.failedCount, r.errors)

\* batches.indexOf(batch) for the batch the loop is at: the batches are
\* distinct arrays and indexOf compares them by identity, so it is the
\* position of the loop, counted from 0.
indexOf(b) == b - 1

\* Mutant of delayAfter: the wait follows the last batch too.
delayAfterEvery(batches, b) == indexOf(b) < Len(batches)

\* if (batches.indexOf(batch) < batches.length - 1)
delayAfter(batches, b) == indexOf(b) < Len(batches) - 1

\* What the run has done so far: a status check of the order at a position
\* of the list, made by the batch b, or a wait of delayMs.
CheckEvent(id, b) == [kind |-> "check", id |-> id, batch |-> b]
DelayEvent == [kind |-> "delay", id |-> 0, batch |-> 0]

\* A call of syncWithRateLimit(orders, provider, batchSize, delayMs) that is
\* about to split the list.
InitRateLimit ==
    /\ WalletIdle /\ CallIdle /\ RaceIdle /\ OsmIdle
    /\ ful = [fn |-> "none"]
    /\ price = [fn |-> "none"]
    /\ RegistryIdle /\ OrdIdle
    /\ \E orders \in RateLists, provider \in RateProviders,
          batchSize \in -1..MaxBatchSize :
          sync = [pc |-> "split", orders |-> orders, provider |-> provider,
                  batchSize |-> batchSize, i |-> 0, batches |-> << >>,
                  turning |-> FALSE,
                  b |-> 0, j |-> 0, inFlight |-> 0, events |-> << >>,
                  syncedCount |-> 0, failedCount |-> 0, errors |-> << >>,
                  totalSynced |-> 0, totalFailed |-> 0, allErrors |-> << >>,
                  out |-> SyncResult(0, 0, << >>)]

\* for (let i = 0; i < orders.length; i += batchSize)
\*     batches.push(orders.slice(i, i + batchSize))
SplitStep ==
    /\ sync.pc = "split"
    /\ sync.i < Len(sync.orders)
    /\ sync' = IF Len(sync.batches) < MaxBatches
                THEN [sync EXCEPT
                        !.batches = Append(@, slice(Len(sync.orders), sync.i,
                                                     sync.i + sync.batchSize)),
                        !.i = @ + sync.batchSize]
                ELSE [sync EXCEPT !.turning = ~@]
    /\ UNCHANGED <<walletVars, callVars, raceVars, osm, ful, price, reg, ord>>

\* The split loop is over: the loop over the batches begins.
SplitDone ==
    /\ sync.pc = "split"
    /\ sync.i >= Len(sync.orders)
    /\ sync' = [sync EXCEPT !.pc = "batch", !.b = 1]
    /\ UNCHANGED <<walletVars, callVars, raceVars, osm, ful, price, reg, ord>>

\* The next batch: syncOrders(batch, provider) is called, its counters are 0.
BatchStart ==
    /\ sync.pc = "batch"
    /\ sync.b <= Len(sync.batches)
    /\ sync' = [sync EXCEPT !.pc = "orders", !.j = 0, !.syncedCount = 0,
                            !.failedCount = 0, !.errors = << >>]
    /\ UNCHANGED <<walletVars, callVars, raceVars, osm, ful, price, reg, ord>>

\* syncOrders awaits syncOrder on the next order of the batch: the status
\* check is in flight.
CheckIssue ==
    /\ sync.pc = "orders"
    /\ sync.j < Len(sync.batches[sync.b])
    /\ sync' = [sync EXCEPT
                  !.pc = "await",
                  !.inFlight = @ + 1,
                  !.events = Append(@, CheckEvent(sync.batches[sync.b][sync.j + 1],
                                                  sync.b))]
    /\ UNCHANGED <<walletVars, callVars, raceVars, osm, ful, price, reg, ord>>

\* The status check returns and syncOrders counts its result.
CheckReturn ==
    /\ sync.pc = "await"
    /\ LET id == sync.batches[sync.b][sync.j + 1]
           result == syncOrder(sync.orders[id].order, sync.provider,
                               sync.orders[id].reply)
       IN  sync' = [sync EXCEPT
                      !.pc = "orders",
                      !.inFlight = @ - 1,
                      !.j = @ + 1,
                      !.syncedCount = IF result.success THEN @ + 1 ELSE @,
                      !.failedCount = IF result.success THEN @ ELSE @ + 1,
                      !.errors = IF result.success THEN @
                                 ELSE Append(@, SyncError(id, result))]
    /\ UNCHANGED <<walletVars, callVars, raceVars, osm, ful, price, reg, ord>>

\* syncOrders has returned for the batch: the totals take its counts and
\* its errors, and the wait follows unless the batch is the last one.
BatchReturn ==
    /\ sync.pc = "orders"
    /\ sync.j = Len(sync.batches[sync.b])
    /\ LET result == SyncResult(sync.syncedCount, sync.failedCount, sync.errors)
       IN  sync' = [sync EXCEPT
                      !.totalSynced = @ + result.syncedCount,
                      !.totalFailed = @ + result.failedCount,
                      !.allErrors = IF IsSet(result.errors)
                                    THEN @ \o Val(result.errors) ELSE @,
                      !.pc = IF delayAfter(sync.batches, sync.b)
                             THEN "delay" ELSE "batch",
                      !.b = IF delayAfter(sync.batches, sync.b) THEN @ ELSE @ + 1]
    /\ UNCHANGED <<walletVars, callVars, raceVars, osm, ful, price, reg, ord>>

\* await new Promise(resolve => setTimeout(resolve, delayMs))
Delay ==
    /\ sync.pc = "delay"
    /\ sync' = [sync EXCEPT !.pc = "batch", !.b = @ + 1,
                            !.events = Append(@, DelayEvent)]
    /\ UNCHANGED <<walletVars, callVars, raceVars, osm, ful, price, reg, ord>>

\* The loop over the batches is over: syncWithRateLimit returns.
RateLimitReturn ==
    /\ sync.pc = "batch"
    /\ sync.b > Len(sync.batches)
    /\ sync' = [sync EXCEPT
                  !.pc = "done",
                  !.out = SyncResult(sync.totalSynced, sync.totalFailed,
                                     sync.allErrors)]
    /\ UNCHANGED <<walletVars, callVars, raceVars, osm, ful, price, reg, ord>>

NextRateLimit ==
    \/ SplitStep
    \/ SplitDone
    \/ BatchStart
    \/ CheckIssue
    \/ CheckReturn
    \/ BatchReturn
    \/ Delay
    \/ RateLimitReturn

SpecRateLimit == InitRateLimit /\ [][NextRateLimit]_vars

\* Every status check returns and every timer fires: the event loop runs
\* each continuation of the one call.
SpecRateLimitFair == SpecRateLimit /\ WF_vars(NextRateLimit)

\* The status checks of the run, in the order they were made.
ChecksMade == SelectSeq(sync.events, LAMBDA e : e.kind = "check")

\* The run kept to its batches: no batch made more than batchSize checks,
\* and a wait stands exactly between two checks of different batches.
BatchesKept ==
    /\ \A b \in 1..Len(sync.batches) :
          Cardinality({p \in 1..Len(sync.events) :
                         sync.events[p].kind = "check" /\ sync.events[p].batch = b})
             \in 1..sync.batchSize
    /\ \A p \in 1..Len(sync.events) :
          sync.events[p].kind = "delay" =>
              /\ p > 1 /\ p < Len(sync.events)
              /\ sync.events[p - 1].kind = "check"
              /\ sync.events[p + 1].kind = "check"
              /\ sync.events[p + 1].batch = sync.events[p - 1].batch + 1
    /\ \A p \in 1..(Len(sync.events) - 1) :
          (sync.events[p].kind = "check" /\ sync.events[p + 1].kind = "check")
             => sync.events[p + 1].batch = sync.events[p].batch

\* C34: with batchSize >= 1 syncWithRateLimit checks every order once, in
\* the order of the list, in consecutive batches of at most batchSize
\* orders, waits between two batches and not after the last, has at most one
\* status check in flight, and returns what syncOrders returns for the list.
RateLimitRefinesSyncOrders ==
    sync.batchSize >= 1 =>
        /\ sync.inFlight <= 1
        /\ sync.pc = "done" =>
              /\ [p \in 1..Len(ChecksMade) |-> ChecksMade[p].id]
                    = [p \in 1..Len(sync.orders) |-> p]
              /\ BatchesKept
              /\ sync.out = syncOrders(sync.orders, sync.provider)

RateLimitRefinesSyncOrdersWitness ==
    /\ sync.pc = "done"
    /\ sync.batchSize = 2
    /\ Len(sync.orders) = 3
    /\ Len(sync.batches) = 2
    /\ sync.out.syncedCount >= 1
    /\ sync.out.failedCount >= 1

\* C35: syncWithRateLimit returns, for every list and every batchSize,
\* when every status check returns.
RateLimitTerminates == <>(sync.pc = "done")

(* ---------------------------------------------------------------------- *)
(* ProviderSync.syncPendingOrders and getOrdersRequiringSync               *)
(* ---------------------------------------------------------------------- *)

\* The provider that is synced and another one.
ProviderIds == {"p1", "p2"}

\* An order of the tenant with the provider it was sent to, and the answer
\* of the endpoint when its status is checked.
PendingItems ==
    [order : [status : OrderStatus, providerOrderId : BOOLEAN, providerId : ProviderIds],
     reply : {r \in EndpointReplies : r.status = "done"}]
PendingLists == UNION { [1..n -> PendingItems] : n \in 0..MaxOrders }

\* Mutant of requiresSync: the status of the order is not looked at.
requiresSyncAnyStatus(order, providerId) ==
    /\ order.providerId = providerId
    /\ order.providerOrderId

\* order.providerId === provider.id && order.providerOrderId &&
\* !OrderStateMachine.isTerminalState(order.status)
requiresSync(order, providerId) ==
    /\ order.providerId = providerId
    /\ order.providerOrderId
    /\ ~isTerminalState(order.status)

\* orders.filter(order => ...): the positions of the orders that pass,
\* among the first k, in the order of the array.
RECURSIVE filter(_, _, _)
filter(items, providerId, k) ==
    IF k = 0 THEN << >>
    ELSE IF requiresSync(items[k].order, providerId)
    THEN Append(filter(items, providerId, k - 1), k)
    ELSE filter(items, providerId, k - 1)

\* ProviderSync.getOrdersRequiringSync: the positions of the orders kept.
getOrdersRequiringSync(items, providerId) == filter(items, providerId, Len(items))

\* syncOrder reaches providerInstance.checkStatus for the order.
issuesCheck(order, provider) == order.providerOrderId /\ ~createThrows(provider)

\* ProviderSync.syncPendingOrders: the positions handed to syncOrders, the
\* positions for which a status check is issued, and the SyncResult.
syncPendingOrders(items, provider, providerId) ==
    LET pendingOrders == filter(items, providerId, Len(items))
    IN  [synced |-> pendingOrders,
         issued |-> SelectSeq(pendingOrders,
                              LAMBDA k : issuesCheck(items[k].order, provider)),
         result |-> syncOrders([p \in 1..Len(pendingOrders) |-> items[pendingOrders[p]]],
                               provider)]

\* The order list of a tenant and the provider "p1"; neither function has
\* been called.
InitPending ==
    /\ WalletIdle /\ CallIdle /\ RaceIdle /\ OsmIdle
    /\ ful = [fn |-> "none"]
    /\ price = [fn |-> "none"]
    /\ RegistryIdle /\ OrdIdle
    /\ \E orders \in PendingLists,
          provider \in {p \in Providers : p.apiUrl /\ \A key \in MappingKeys :
                                             p.statusMapping[key] = None} :
          sync = [pc |-> "called", orders |-> orders, provider |-> provider,
                  providerId |-> "p1", pending |-> Undefined, required |-> Undefined]

SyncPendingOrders ==
    /\ sync.pc = "called"
    /\ ~IsSet(sync.pending)
    /\ sync' = [sync EXCEPT
                  !.pending = Some(syncPendingOrders(sync.orders, sync.provider,
                                                     sync.providerId))]
    /\ UNCHANGED <<walletVars, callVars, raceVars, osm, ful, price, reg, ord>>

GetOrdersRequiringSync ==
    /\ sync.pc = "called"
    /\ ~IsSet(sync.required)
    /\ sync' = [sync EXCEPT
                  !.required = Some(getOrdersRequiringSync(sync.orders, sync.providerId))]
    /\ UNCHANGED <<walletVars, callVars, raceVars, osm, ful, price, reg, ord>>

NextPending ==
    \/ SyncPendingOrders
    \/ GetOrdersRequiringSync

SpecPending == InitPending /\ [][NextPending]_vars

\* The positions of the orders of the provider that have a provider order
\* id and are not delivered, refunded or cancelled.
Remaining ==
    { k \in 1..Len(sync.orders) :
        /\ sync.orders[k].order.providerId = sync.providerId
        /\ sync.orders[k].order.providerOrderId
        /\ sync.orders[k].order.status \notin {"delivered", "refunded", "cancelled"} }

PositionsOf(seq) == {seq[p] : p \in 1..Len(seq)}

\* C36: syncPendingOrders issues no status check for an order that is
\* delivered, refunded or cancelled, that belongs to another provider or that
\* has no provider order id; it syncs exactly the other orders, once each,
\* and getOrdersRequiringSync returns these same orders.
PendingOrdersFiltered ==
    /\ IsSet(sync.pending) =>
          /\ PositionsOf(Val(sync.pending).issued) \subseteq Remaining
          /\ PositionsOf(Val(sync.pending).synced) = Remaining
          /\ Len(Val(sync.pending).synced) = Cardinality(Remaining)
          /\ Val(sync.pending).result.syncedCount + Val(sync.pending).result.failedCount
                = Cardinality(Remaining)
    /\ (IsSet(sync.pending) /\ IsSet(sync.required)) =>
          Val(sync.required) = Val(sync.pending).synced

PendingOrdersFilteredWitness ==
    /\ IsSet(sync.pending) /\ IsSet(sync.required)
    /\ Len(sync.orders) = 2
    /\ Val(sync.pending).issued = <<2>>
    /\ sync.orders[1].order.providerId = "p1"
    /\ sync.orders[1].order.providerOrderId
    /\ sync.orders[1].order.status = "delivered"

(* ---------------------------------------------------------------------- *)
(* ScheduledSync                                                           *)
(* ---------------------------------------------------------------------- *)

\* The timers setInterval hands out in one history, and the runs of one
\* provider's callback the model lets be in flight together.
MaxTimers == 3
MaxRuns == 2

\* No entry of the map syncIntervals.
NoTimer == 0

\* No interval is scheduled and no callback runs.
InitScheduled ==
    /\ WalletIdle /\ CallIdle /\ RaceIdle /\ OsmIdle
    /\ ful = [fn |-> "none"]
    /\ price = [fn |-> "none"]
    /\ RegistryIdle /\ OrdIdle
    /\ sync = [pc |-> "scheduled",
               syncIntervals |-> [p \in ProviderIds |-> NoTimer],
               timers |-> {},
               nextTimer |-> 1,
               running |-> [p \in ProviderIds |-> 0]]

\* clearInterval(interval) for the entry of the provider, if there is one.
stopSync(s, providerId) ==
    IF s.syncIntervals[providerId] # NoTimer
    THEN [s EXCEPT !.timers = @ \ {[provider |-> providerId,
                                    id |-> s.syncIntervals[providerId]]},
                   !.syncIntervals[providerId] = NoTimer]
    ELSE s

\* ScheduledSync.startSync: stopSync, then setInterval and the map entry.
startSync(s, providerId) ==
    LET stopped == stopSync(s, providerId)
    IN  [stopped EXCEPT !.timers = @ \cup {[provider |-> providerId, id |-> s.nextTimer]},
                        !.syncIntervals[providerId] = s.nextTimer,
                        !.nextTimer = @ + 1]

\* ScheduledSync.stopAllSyncs: clearInterval on every entry, then clear().
stopAllSyncs(s) ==
    [s EXCEPT !.timers = @ \ {[provider |-> p, id |-> s.syncIntervals[p]] : p \in ProviderIds},
              !.syncIntervals = [p \in ProviderIds |-> NoTimer]]

StartSync ==
    /\ sync.pc = "scheduled"
    /\ sync.nextTimer <= MaxTimers
    /\ \E providerId \in ProviderIds : sync' = startSync(sync, providerId)
    /\ UNCHANGED <<walletVars, callVars, raceVars, osm, ful, price, reg, ord>>

StopSync ==
    /\ sync.pc = "scheduled"
    /\ \E providerId \in ProviderIds : sync' = stopSync(sync, providerId)
    /\ UNCHANGED <<walletVars, callVars, raceVars, osm, ful, price, reg, ord>>

StopAllSyncs ==
    /\ sync.pc = "scheduled"
    /\ sync' = stopAllSyncs(sync)
    /\ UNCHANGED <<walletVars, callVars, raceVars, osm, ful, price, reg, ord>>

\* A timer that is not cleared fires: the async function of setInterval
\* calls syncCallback() and awaits it.  Nothing looks at the runs that have
\* not finished.
Tick ==
    /\ sync.pc = "scheduled"
    /\ \E timer \in sync.timers :
          /\ sync.running[timer.provider] < MaxRuns
          /\ sync' = [sync EXCEPT !.running[timer.provider] = @ + 1]
    /\ UNCHANGED <<walletVars, callVars, raceVars, osm, ful, price, reg, ord>>

\* A run of syncCallback settles, resolved or rejected.
CallbackSettles ==
    /\ sync.pc = "scheduled"
    /\ \E providerId \in ProviderIds :
          /\ sync.running[providerId] > 0
          /\ sync' = [sync EXCEPT !.running[providerId] = @ - 1]
    /\ UNCHANGED <<walletVars, callVars, raceVars, osm, ful, price, reg, ord>>

NextScheduled ==
    \/ StartSync
    \/ StopSync
    \/ StopAllSyncs
    \/ Tick
    \/ CallbackSettles

SpecScheduled == InitScheduled /\ [][NextScheduled]_vars

\* C37: at most one run of a provider's callback is in flight, and the only
\* timer of a provider that can fire is the one syncIntervals holds for it.
OneRunInFlight ==
    \A providerId \in ProviderIds :
        /\ sync.running[providerId] <= 1
        /\ \A timer \in sync.timers :
              timer.provider = providerId => timer.id = sync.syncIntervals[providerId]

(* ---------------------------------------------------------------------- *)
(* UserHierarchy: isAncestor, hasCircularReference, getWalletOwner         *)
(* ---------------------------------------------------------------------- *)

\* The users of the tenant.
MaxUsers == 3
HierarchyUsers == 1..MaxUsers

\* parentUserId is not set.
NoParent == 0

\* A walk along parentUserId that has passed more users than there are is
\* on a cycle and never ends.
Returns(value) == [hangs |-> FALSE, value |-> value]
Hangs == [hangs |-> TRUE, value |-> FALSE]

\* What getWalletOwner gives: the id it returns, or the RangeError of a
\* call stack that is used up.
Owner(userId) == [thrown |-> FALSE, value |-> userId]
StackOverflow == [thrown |-> TRUE, value |-> NoParent]

\* UserHierarchy.isAncestor: the while loop from currentUser; fuel is the
\* number of users the walk may still pass before it is known to be on a
\* cycle, and then the loop never exits.
RECURSIVE isAncestorFrom(_, _, _, _)
isAncestorFrom(potentialAncestorId, currentUser, parentUserId, fuel) ==
    IF parentUserId[currentUser] = NoParent THEN Returns(FALSE)
    ELSE IF parentUserId[currentUser] = potentialAncestorId THEN Returns(TRUE)
    ELSE IF fuel = 0 THEN Hangs
    ELSE isAncestorFrom(potentialAncestorId, parentUserId[currentUser],
                        parentUserId, fuel - 1)

isAncestor(potentialAncestorId, userId, parentUserId) ==
    isAncestorFrom(potentialAncestorId, userId, parentUserId, MaxUsers)

\* UserHierarchy.hasCircularReference
hasCircularReference(userId, newParentId, parentUserId) ==
    isAncestor(userId, newParentId, parentUserId)

\* UserHierarchy.getWalletOwner: the recursion; without an end it uses up
\* the call stack.
RECURSIVE getWalletOwnerFrom(_, _, _)
getWalletOwnerFrom(userId, parentUserId, fuel) ==
    IF parentUserId[userId] = NoParent THEN Owner(userId)
    ELSE IF fuel = 0 THEN StackOverflow
    ELSE getWalletOwnerFrom(parentUserId[userId], parentUserId, fuel - 1)

getWalletOwner(userId, parentUserId) ==
    getWalletOwnerFrom(userId, parentUserId, MaxUsers)

\* Every user is a root user and nothing has been asked.
InitHierarchy ==
    /\ WalletIdle /\ CallIdle /\ RaceIdle /\ OsmIdle
    /\ ful = [fn |-> "none"]
    /\ sync = [pc |-> "idle"]
    /\ price = [fn |-> "none"]
    /\ RegistryIdle
    /\ ord = [fn |-> "hierarchy",
              parentUserId |-> [u \in HierarchyUsers |-> NoParent],
              userId |-> NoParent, out |-> Owner(NoParent)]

\* A parent is assigned to a user: the assignment is made when
\* hasCircularReference returns false, refused when it returns true; when
\* the check never returns, nothing follows it.
AssignParent ==
    /\ ord.fn # "hung"
    /\ \E userId \in HierarchyUsers, newParentId \in HierarchyUsers :
          LET circular == hasCircularReference(userId, newParentId, ord.parentUserId)
          IN  ord' = IF circular.hangs
                     THEN [ord EXCEPT !.fn = "hung", !.userId = userId,
                                      !.out = Owner(NoParent)]
                     ELSE IF circular.value
                     THEN [ord EXCEPT !.fn = "refused", !.userId = userId,
                                      !.out = Owner(NoParent)]
                     ELSE [ord EXCEPT !.fn = "assigned", !.userId = userId,
                                      !.parentUserId[userId] = newParentId,
                                      !.out = Owner(NoParent)]
    /\ UNCHANGED <<walletVars, callVars, raceVars, osm, ful, sync, price, reg>>

\* The owner of the wallet is looked up before a ledger operation.
GetWalletOwner ==
    /\ ord.fn # "hung"
    /\ \E userId \in HierarchyUsers :
          ord' = [ord EXCEPT !.fn = "getWalletOwner", !.userId = userId,
                             !.out = getWalletOwner(userId, ord.parentUserId)]
    /\ UNCHANGED <<walletVars, callVars, raceVars, osm, ful, sync, price, reg>>

NextHierarchy ==
    \/ AssignParent
    \/ GetWalletOwner

SpecHierarchy == InitHierarchy /\ [][NextHierarchy]_vars

\* The user and the users above it, up to k steps.
RECURSIVE ChainOf(_, _)
ChainOf(userId, k) ==
    IF k = 0 \/ ord.parentUserId[userId] = NoParent THEN {userId}
    ELSE {userId} \cup ChainOf(ord.parentUserId[userId], k - 1)

\* C38: in a hierarchy built from assignments hasCircularReference let
\* pass, getWalletOwner returns for every user, and what it returns is a
\* user without parent that is the user or one of its ancestors, and is
\* its own wallet owner.
WalletOwnerIsRoot ==
    ord.fn = "getWalletOwner" =>
        /\ ~ord.out.thrown
        /\ ord.out.value \in ChainOf(ord.userId, MaxUsers)
        /\ ord.parentUserId[ord.out.value] = NoParent
        /\ getWalletOwner(ord.out.value, ord.parentUserId) = ord.out

(* ---------------------------------------------------------------------- *)
(* UserManager: the status of a user                                       *)
(* ---------------------------------------------------------------------- *)

UserStatus == {"active", "disabled", "banned", "warned"}

\* The reasons an administrator gives.
StatusReasons == {"fraud", "review"}

\* The status fields of a user; statusReason is None when undefined.
StatusOf(status, statusReason) == [status |-> status, statusReason |-> statusReason]

\* What an operation returns: the updated user, or the user it was given
\* with the code of the UserManagementError it threw.
Updated(user) == [thrown |-> FALSE, code |-> None, user |-> user]
ManagementError(user, code) == [thrown |-> TRUE, code |-> code, user |-> user]

\* UserManager.canActivate
canActivate(user) ==
    IF user.status = "active" THEN [allowed |-> FALSE, reason |-> "User is already active"]
    ELSE IF user.status = "banned"
    THEN [allowed |-> FALSE, reason |-> "Banned users must be unbanned first"]
    ELSE [allowed |-> TRUE, reason |-> None]

\* UserManager.activate
activate(user) ==
    IF ~canActivate(user).allowed THEN ManagementError(user, "CANNOT_ACTIVATE")
    ELSE Updated(StatusOf("active", None))

\* UserManager.disable
disable(user, reason) ==
    IF user.status = "banned" THEN ManagementError(user, "CANNOT_DISABLE")
    ELSE Updated(StatusOf("disabled", reason))

\* UserManager.ban
ban(user, reason) == Updated(StatusOf("banned", reason))

\* UserManager.warn
warn(user, reason) == Updated(StatusOf("warned", reason))

\* UserManager.unban
unban(user) ==
    IF user.status # "banned" THEN ManagementError(user, "NOT_BANNED")
    ELSE Updated(StatusOf("active", None))

\* UserManager.canPerformActions
canPerformActions(user) == user.status = "active" \/ user.status = "warned"

\* UserManager.canLogin
canLogin(user) ==
    IF user.status = "banned"
    THEN [allowed |-> FALSE, reason |-> "Account has been banned"]
    ELSE IF user.status = "disabled"
    THEN [allowed |-> FALSE, reason |-> "Account has been disabled"]
    ELSE [allowed |-> TRUE, reason |-> None]

\* The users as the users table creates them: active, without reason.
InitUser ==
    /\ WalletIdle /\ CallIdle /\ RaceIdle /\ OsmIdle
    /\ ful = [fn |-> "none"]
    /\ sync = [pc |-> "idle"]
    /\ price = [fn |-> "none"]
    /\ RegistryIdle
    /\ ord = [fn |-> "created", userId |-> None,
              before |-> StatusOf("active", None),
              users |-> [u \in UserIds |-> StatusOf("active", None)],
              thrown |-> FALSE, code |-> None]

\* The state after an operation on a user: the user it was given, the user
\* that is stored (the one given when the operation threw), and the error.
AfterCall(fn, userId, result) ==
    [fn |-> fn, userId |-> userId, before |-> ord.users[userId],
     users |-> [ord.users EXCEPT ![userId] = result.user],
     thrown |-> result.thrown, code |-> result.code]

ActivateUser ==
    /\ \E userId \in UserIds :
          ord' = AfterCall("activate", userId, activate(ord.users[userId]))
    /\ UNCHANGED <<walletVars, callVars, raceVars, osm, ful, sync, price, reg>>

DisableUser ==
    /\ \E userId \in UserIds, reason \in StatusReasons :
          ord' = AfterCall("disable", userId, disable(ord.users[userId], reason))
    /\ UNCHANGED <<walletVars, callVars, raceVars, osm, ful, sync, price, reg>>

BanUser ==
    /\ \E userId \in UserIds, reason \in StatusReasons :
          ord' = AfterCall("ban", userId, ban(ord.users[userId], reason))
    /\ UNCHANGED <<walletVars, callVars, raceVars, osm, ful, sync, price, reg>>

WarnUser ==
    /\ \E userId \in UserIds, reason \in StatusReasons :
          ord' = AfterCall("warn", userId, warn(ord.users[userId], reason))
    /\ UNCHANGED <<walletVars, callVars, raceVars, osm, ful, sync, price, reg>>

UnbanUser ==
    /\ \E userId \in UserIds :
          ord' = AfterCall("unban", userId, unban(ord.users[userId]))
    /\ UNCHANGED <<walletVars, callVars, raceVars, osm, ful, sync, price, reg>>

NextUser ==
    \/ ActivateUser
    \/ DisableUser
    \/ BanUser
    \/ WarnUser
    \/ UnbanUser

SpecUser == InitUser /\ [][NextUser]_vars

\* C39: an operation other than unban, called on a banned user, leaves the
\* user banned: the user can neither log in nor perform actions after it.
BannedUntilUnban ==
    (ord.fn \in {"activate", "disable", "ban", "warn"} /\ ord.before.status = "banned")
    => /\ ord.users[ord.userId].status = "banned"
       /\ ~canLogin(ord.users[ord.userId]).allowed
       /\ ~canPerformActions(ord.users[ord.userId])
====
